---- MODULE Spec2Model ----
(***************************************************************************)
(* Model of the news acquisition and section-assignment pipeline of        *)
(* app/services/news_service.py (class NewsService).                       *)
(*                                                                         *)
(* SpecFetch : one invocation of fetch_news_with_catchy_titles, suspended  *)
(*             at its external calls (search model, title-rewrite model,   *)
(*             fallback model).                                            *)
(* SpecRank  : one invocation of rank_and_assign_to_sections, suspended at *)
(*             the ranking-model call.                                     *)
(*                                                                         *)
(* JSON values are modelled structurally: a dict is a function whose       *)
(* DOMAIN is the set of keys present; strings whose characters matter      *)
(* (urls) are sequences of chunks; null and wrongly typed values are       *)
(* tagged.  An exception is a value of the step that raised it and is      *)
(* caught where the code catches it.                                       *)
(***************************************************************************)
EXTENDS Integers, Sequences, FiniteSets, TLC

VARIABLES
    pc,            \* where the invocation of fetch_news_with_catchy_titles is
    category,      \* argument category
    num_items,     \* argument num_items
    search_resp,   \* what search_chain.ainvoke produced
    raw_articles,  \* search_data.get("news", [])
    original_data, \* original_data: index -> provenance record
    titles_only,   \* titles_only: the list handed to the title-rewrite model
    rewrite_resp,  \* what titles_chain.ainvoke produced
    fallback_resp, \* what chain.ainvoke produced in _fetch_ai_generated_news
    result,        \* the returned List[NewsItem]
    result_src,    \* history: for each returned item, the raw index it was built from
    path,          \* history: which return statement produced result
    calls,         \* history: number of calls issued to each model
    rpc,           \* where the invocation of rank_and_assign_to_sections is
    all_news,      \* argument all_news: per category, in the map's order, its items
    n_items,       \* len(all_items), the flattened list (items are their positions)
    rank_resp,     \* what chain.ainvoke produced in rank_and_assign_to_sections
    sections,      \* the returned map, as a sequence of <<section_key, positions>>
    rank_path,     \* history: which return statement produced sections
    dpc,           \* where the invocation of _dedupe_items is
    items,         \* argument items of _dedupe_items
    unique_items,  \* the list _dedupe_items returned
    spc,           \* where the invocation of search_news_for_section is
    section_description, \* argument section_description, as a sequence of tokens
    s_num_items,   \* argument num_items of search_news_for_section
    related_resp,  \* what search_chain.ainvoke produced for the related search
    cat_items,     \* per category fetched so far, what fetch_news_with_catchy_titles returned
    s_result,      \* the List[NewsItem] search_news_for_section returned
    s_src,         \* history: for each related item returned, the raw index it came from
    s_path,        \* history: which return statement produced s_result
    s_calls,       \* history: the calls issued, in order
    requests,      \* per newsletter-assembly request: its position and its locals
    g_all_news,    \* the all_news maps being filled by fetch_all_categories
    news_cache,    \* self._news_cache of the shared NewsService instance
    settings,      \* settings.ACTIVECAMPAIGN_URL and settings.ACTIVECAMPAIGN_API_KEY
    service_instance, \* the module global _service_instance
    apc,           \* where the ActiveCampaign route being served is
    route,         \* the route being served and its request body
    message_id,    \* message_id in push_newsletter
    http_log,      \* history: the HTTP requests issued to ActiveCampaign, in order
    outcome,       \* what the route answered
    served         \* history: number of routes served so far

fetchVars == <<pc, category, num_items, search_resp, raw_articles, original_data,
               titles_only, rewrite_resp, fallback_resp, result, result_src, path, calls>>
rankVars == <<rpc, all_news, n_items, rank_resp, sections, rank_path>>
dedupeVars == <<dpc, items, unique_items>>
sectionVars == <<spc, section_description, s_num_items, related_resp, cat_items,
                 s_result, s_src, s_path, s_calls>>
pipelineVars == <<requests, g_all_news, news_cache>>
campaignVars == <<settings, service_instance, apc, route, message_id, http_log,
                  outcome, served>>
vars == <<fetchVars, rankVars, dedupeVars, sectionVars, pipelineVars, campaignVars>>

----------------------------------------------------------------------------
(* Bounds *)

\* longest news array a search response carries
MaxArticles == 3

\* longest flattened item list handed to rank_and_assign_to_sections
MaxItems == 12
MaxDedupe == 3
MaxRoutes == 2

----------------------------------------------------------------------------
(* JSON values *)

Null == [t |-> "null"]
Str(chunks) == [t |-> "str", v |-> chunks]
Int_(n) == [t |-> "int", v |-> n]
Bool_(b) == [t |-> "bool", v |-> b]
NonInt == [t |-> "str", v |-> <<"0">>]

\* dict.get(key, default)
Get(d, key, default) == IF key \in DOMAIN d THEN d[key] ELSE default

\* mutant of Take: the slice is not cut
Take_NoCut(s, n) == s

\* a[:n] for n >= 0
Take(s, n) == SubSeq(s, 1, IF n < Len(s) THEN n ELSE Len(s))

\* url chunks
SP == " "
HTTPS == "https://"
HTTP == "http://"
DOTS == "..."
Placeholder == <<HTTPS, DOTS>>

RECURSIVE LStrip(_)
LStrip(s) == IF s # <<>> /\ Head(s) = SP THEN LStrip(Tail(s)) ELSE s

RECURSIVE RStrip(_)
RStrip(s) == IF s # <<>> /\ s[Len(s)] = SP THEN RStrip(SubSeq(s, 1, Len(s) - 1)) ELSE s

\* str.strip()
Strip(s) == RStrip(LStrip(s))

\* url.startswith("http")
StartsWithHttp(s) == s # <<>> /\ Head(s) \in {HTTP, HTTPS}

----------------------------------------------------------------------------
(* Model responses.  A response is either a raised exception (network     *)
(* error, timeout) or a text: a sequence of tokens, each a code fence,    *)
(* white space, prose, or one JSON value.                                  *)

Raise == [kind |-> "raise"]
Text(tokens) == [kind |-> "text", text |-> tokens]

FENCE == [tok |-> "fence"]
WS == [tok |-> "ws"]
PROSE == [tok |-> "prose"]
Json(j) == [tok |-> "json", json |-> j]

\* JSON documents: an object (dict) or something else (a list, a number, ...)
Dict(d) == [shape |-> "dict", d |-> d]
NotADict == [shape |-> "list"]

Plain(j) == Text(<<Json(j)>>)
Fenced(j) == Text(<<FENCE, WS, Json(j), WS, FENCE>>)
InProse(j) == Text(<<PROSE, WS, Json(j), WS, PROSE>>)
Garbage == Text(<<PROSE>>)

RECURSIVE LStripWs(_)
LStripWs(t) == IF t # <<>> /\ Head(t) = WS THEN LStripWs(Tail(t)) ELSE t

RECURSIVE RStripWs(_)
RStripWs(t) == IF t # <<>> /\ t[Len(t)] = WS THEN RStripWs(SubSeq(t, 1, Len(t) - 1)) ELSE t

\* re.sub(r'^```(?:json)?\s*', '', s)
DropLeadingFence(t) == IF t # <<>> /\ Head(t) = FENCE THEN LStripWs(Tail(t)) ELSE t

\* re.sub(r'\s*```$', '', s)
DropTrailingFence(t) ==
    IF t # <<>> /\ t[Len(t)] = FENCE THEN RStripWs(SubSeq(t, 1, Len(t) - 1)) ELSE t

\* clean = text.strip(); if clean.startswith("```"): strip the fences
CleanResult(t) ==
    LET clean == RStripWs(LStripWs(t))
    IN  IF clean # <<>> /\ Head(clean) = FENCE
        THEN DropTrailingFence(DropLeadingFence(clean))
        ELSE clean

\* json.loads: one JSON value, white space around it allowed; anything else raises
JsonLoads(t) ==
    LET body == RStripWs(LStripWs(t))
    IN  IF Len(body) = 1 /\ body[1].tok = "json"
        THEN [ok |-> TRUE, json |-> body[1].json]
        ELSE [ok |-> FALSE]

\* the cleaning and parsing every caller applies to a model's text
ParseResponse(resp) ==
    IF resp.kind = "raise" THEN [ok |-> FALSE] ELSE JsonLoads(CleanResult(resp.text))

----------------------------------------------------------------------------
(* The records a search response may carry *)

A_good == [title |-> "T1", url |-> Str(<<HTTPS, "a.com">>), publisher |-> "PubA",
           published_date |-> "2026-03-01", summary |-> "SumA", why_it_matters |-> "WhyA"]
A_bare == [title |-> "T2", url |-> Str(<<SP, "b.com", SP>>)]
A_nourl == [title |-> "T1", publisher |-> "PubB"]
A_blank == [title |-> "T2", url |-> Str(<<SP>>), summary |-> "SumB"]
A_placeholder == [title |-> "T1", url |-> Str(Placeholder), published_date |-> "2026-03-02"]
A_null == [title |-> "T2", url |-> Null]
A_dots == [title |-> "T1", url |-> Str(<<DOTS>>)]
A_notitle == [url |-> Str(<<HTTP, "c.com">>), why_it_matters |-> "WhyB"]

\* an element of the news array that is not an object (a bare string)
NotARecord == Str(<<"text">>)

\* article.get(...) raises AttributeError unless the element is an object
IsRecord(article) == "t" \notin DOMAIN article

ArticlePool == {A_good, A_bare, A_nourl, A_blank, A_placeholder, A_null, A_dots, A_notitle}

SeqsUpTo(S, n) == UNION {[1..k -> S] : k \in 0..n}

NewsArrays == SeqsUpTo(ArticlePool, MaxArticles)

SearchResponses ==
    {Raise, Garbage, Plain(NotADict), Plain(Dict(<<>>))}
    \cup {Plain(Dict([news |-> a])) : a \in NewsArrays}
    \cup {Fenced(Dict([news |-> a])) : a \in {<<>>, <<A_good>>, <<A_bare, A_good>>}}
    \cup {InProse(Dict([news |-> a])) : a \in {<<A_good>>}}
    \cup {Plain(Dict([news |-> a])) : a \in {<<NotARecord>>, <<A_good, NotARecord>>}}

\* entries of the title-rewrite response
Entry(i, c) == [index |-> Int_(i), catchy_title |-> c]

RewriteTitleLists ==
    { <<Entry(0, "C1")>>,
      <<Entry(2, "C1"), Entry(0, "C2")>>,
      <<Entry(1, "C1"), Entry(1, "C2")>>,
      <<Entry(-1, "C1"), Entry(1, "")>>,
      <<[catchy_title |-> "C1"], [index |-> Int_(0)]>>,
      <<[index |-> Int_(0), catchy_title |-> "C2", url |-> Str(<<HTTPS, "evil.com">>),
         publisher |-> "PubX", published_date |-> "1999-01-01", summary |-> "SumX",
         why_it_matters |-> "WhyX"]>>,
      <<[index |-> NonInt, catchy_title |-> "C1"]>> }

RewriteResponses ==
    {Raise, Garbage, Plain(Dict(<<>>))}
    \cup {Plain(Dict([titles |-> t])) : t \in RewriteTitleLists}
    \cup {Fenced(Dict([titles |-> <<Entry(0, "C1"), Entry(2, "C2")>>]))}

\* records of the fallback response
F_one == [catchy_title |-> "F1", url |-> Str(<<>>), publisher |-> "PubF"]
F_two == [title |-> "F2", url |-> Str(<<HTTPS, "fake.com">>)]
F_notitle == [url |-> Str(<<>>), summary |-> "SumF"]

FallbackResponses ==
    {Raise, Garbage, Plain(NotADict),
     Plain(Dict([news |-> <<F_one>>])),
     Plain(Dict([news |-> <<F_one, NotARecord>>])),
     Fenced(Dict([news |-> <<F_two, F_notitle, F_one, F_two>>]))}

Categories == {"seo", "ppc"}

\* the values of num_items tried: none, fewer than the longest array, all of it
NumItems == {0, MaxArticles - 1, MaxArticles}

----------------------------------------------------------------------------
(* fetch_news_with_catchy_titles: the pure steps *)

DefaultPublisher == "Industry Source"
DefaultDate == "2026-01-12"
EmptyStr == Str(<<>>)

\* mutant of OriginalData: absent fields are not defaulted per field, the whole
\* record is replaced by the defaults
OriginalData_AllOrNothing(article) ==
    IF {"publisher", "published_date", "summary", "why_it_matters"} \subseteq DOMAIN article
    THEN [url |-> Get(article, "url", EmptyStr), publisher |-> article.publisher,
          published_date |-> article.published_date, summary |-> article.summary,
          why_it_matters |-> article.why_it_matters]
    ELSE [url |-> Get(article, "url", EmptyStr), publisher |-> DefaultPublisher,
          published_date |-> DefaultDate, summary |-> "", why_it_matters |-> ""]

\* original_data[i] = {...}: the provenance record kept for one raw article
OriginalData(article) ==
    [url |-> Get(article, "url", EmptyStr),
     publisher |-> Get(article, "publisher", DefaultPublisher),
     published_date |-> Get(article, "published_date", DefaultDate),
     summary |-> Get(article, "summary", ""),
     why_it_matters |-> Get(article, "why_it_matters", "")]

\* mutant of TitleProjection: the url travels with the title
TitleProjection_WithUrl(i, article) ==
    [index |-> i, title |-> Get(article, "title", ""), url |-> Get(article, "url", EmptyStr)]

\* titles_only.append({"index": i, "title": article.get("title", "")})
TitleProjection(i, article) == [index |-> i, title |-> Get(article, "title", "")]

\* original_data as a map from 0-based index
OriginalDataOf(raw) == [i \in 0..(Len(raw) - 1) |-> OriginalData(raw[i + 1])]

\* titles_only as a list
TitlesOnlyOf(raw) == [k \in 1..Len(raw) |-> TitleProjection(k - 1, raw[k])]

\* idx = item.get("index", -1); idx >= 0 raises TypeError unless idx is a number
EntryIndex(entry) == Get(entry, "index", Int_(-1))

CatchyMapRaises(entries) == \E k \in 1..Len(entries) : EntryIndex(entries[k]).t # "int"

\* catchy_map[idx] = item.get("catchy_title", "") for every entry with idx >= 0,
\* a later entry overwriting an earlier one with the same index
RECURSIVE CatchyMapOf(_)
CatchyMapOf(entries) ==
    IF entries = <<>> THEN <<>>
    ELSE LET last == entries[Len(entries)]
             before == CatchyMapOf(SubSeq(entries, 1, Len(entries) - 1))
             idx == EntryIndex(last).v
         IN  IF idx >= 0
             THEN (idx :> Get(last, "catchy_title", "")) @@ before
             ELSE before

\* mutant of UrlRejected: only the placeholder is rejected
UrlRejected_PlaceholderOnly(url) == url = Placeholder

\* the url validation gate: not url or url == "https://..." or url == ""
UrlRejected(url) == url = <<>> \/ url = Placeholder

\* if not url.startswith("http"): url = f"https://{url}"
WithScheme(url) == IF StartsWithHttp(url) THEN url ELSE <<HTTPS>> \o url

\* mutant of MergedTitle: the map is read one index off
MergedTitle_Shifted(i, catchy_map, article) ==
    LET catchy_title == Get(catchy_map, i + 1, Get(article, "title", ""))
    IN  IF catchy_title # "" THEN catchy_title ELSE Get(article, "title", "")

\* catchy_title = catchy_map.get(i, article.get("title", ""));
\* title = catchy_title if catchy_title else article.get("title", "")
MergedTitle(i, catchy_map, article) ==
    LET catchy_title == Get(catchy_map, i, Get(article, "title", ""))
    IN  IF catchy_title # "" THEN catchy_title ELSE Get(article, "title", "")

\* NewsItem(...) built in the merge loop for raw index i
MergedItem(cat, i, catchy_map, article, orig) ==
    [category |-> cat,
     title |-> MergedTitle(i, catchy_map, article),
     publisher |-> orig.publisher,
     published_date |-> orig.published_date,
     url |-> Str(WithScheme(Strip(orig.url.v))),
     summary |-> orig.summary,
     why_it_matters |-> orig.why_it_matters,
     tags |-> <<cat, "digital-marketing">>]

\* orig.get("url", "").strip() raises AttributeError when the url is null
MergeRaises(raw, n, orig_data) ==
    \E k \in 1..Len(Take(raw, n)) : orig_data[k - 1].url.t # "str"

\* does the merge loop append an item for raw index i
MergeKeeps(cat, i, catchy_map, article, orig) ==
    /\ ~UrlRejected(Strip(orig.url.v))
    /\ MergedItem(cat, i, catchy_map, article, orig).title # ""

\* the merge loop over raw_articles[:num_items]: the kept <<index, item>> pairs in order
RECURSIVE MergeLoop(_, _, _, _, _)
MergeLoop(cat, raw, k, catchy_map, orig_data) ==
    IF k = 0 THEN <<>>
    ELSE LET rest == MergeLoop(cat, raw, k - 1, catchy_map, orig_data)
             i == k - 1
         IN  IF MergeKeeps(cat, i, catchy_map, raw[k], orig_data[i])
             THEN Append(rest, [i |-> i,
                                item |-> MergedItem(cat, i, catchy_map, raw[k], orig_data[i])])
             ELSE rest

\* lines 199-246: parse the rewrite response, build catchy_map, merge
MergeStep(cat, n, raw, orig_data, resp) ==
    LET parsed == ParseResponse(resp)
    IN  IF ~parsed.ok \/ parsed.json.shape # "dict" THEN [raised |-> TRUE]
        ELSE LET entries == Get(parsed.json.d, "titles", <<>>)
             IN  IF CatchyMapRaises(entries) \/ MergeRaises(raw, n, orig_data)
                 THEN [raised |-> TRUE]
                 ELSE [raised |-> FALSE,
                       kept |-> MergeLoop(cat, raw, Len(Take(raw, n)),
                                          CatchyMapOf(entries), orig_data)]

\* mutant of SearchStep: the "if not raw_articles" test is missing
SearchStep_NoEmptyTest(resp) ==
    LET parsed == ParseResponse(resp)
    IN  IF ~parsed.ok \/ parsed.json.shape # "dict" THEN [next |-> "except"]
        ELSE [next |-> "rewrite", raw |-> Get(parsed.json.d, "news", <<>>)]

\* lines 148-177: parse the search response; what the search step ends in
SearchStep(resp) ==
    LET parsed == ParseResponse(resp)
    IN  IF ~parsed.ok \/ parsed.json.shape # "dict" THEN [next |-> "except"]
        ELSE LET raw == Get(parsed.json.d, "news", <<>>)
             IN  IF raw = <<>> THEN [next |-> "empty"]
                 ELSE IF \E k \in 1..Len(raw) : ~IsRecord(raw[k]) THEN [next |-> "except"]
                 ELSE [next |-> "rewrite", raw |-> raw]

----------------------------------------------------------------------------
(* _fetch_ai_generated_news *)

\* NewsItem(...) built from one record of the fallback response
GeneratedItem(cat, article) ==
    [category |-> cat,
     title |-> Get(article, "catchy_title", Get(article, "title", "")),
     publisher |-> Get(article, "publisher", DefaultPublisher),
     published_date |-> Get(article, "published_date", DefaultDate),
     url |-> Get(article, "url", EmptyStr),
     summary |-> Get(article, "summary", ""),
     why_it_matters |-> Get(article, "why_it_matters", ""),
     tags |-> <<cat, "digital-marketing">>]

RECURSIVE GeneratedLoop(_, _)
GeneratedLoop(cat, articles) ==
    IF articles = <<>> THEN <<>>
    ELSE LET rest == GeneratedLoop(cat, SubSeq(articles, 1, Len(articles) - 1))
             item == GeneratedItem(cat, articles[Len(articles)])
         IN  IF item.title # "" THEN Append(rest, item) ELSE rest

\* the try block, lines 287-316
GeneratedTry(cat, n, resp) ==
    LET parsed == ParseResponse(resp)
    IN  IF ~parsed.ok \/ parsed.json.shape # "dict" THEN [raised |-> TRUE]
        ELSE LET articles == Take(Get(parsed.json.d, "news", <<>>), n)
             IN  IF \E k \in 1..Len(articles) : ~IsRecord(articles[k])
                 THEN [raised |-> TRUE]
                 ELSE [raised |-> FALSE, items |-> GeneratedLoop(cat, articles)]

\* mutant of FetchAIGeneratedNews: the except clause is missing
FetchAIGeneratedNews_NoExcept(cat, n, resp) == GeneratedTry(cat, n, resp)

\* mutant of FetchAIGeneratedNews: a failure yields one made-up item, not []
FetchAIGeneratedNews_ItemOnError(cat, n, resp) ==
    LET r == GeneratedTry(cat, n, resp)
    IN  IF r.raised THEN [raised |-> FALSE, items |-> <<GeneratedItem(cat, F_one)>>] ELSE r

\* the whole function: except Exception -> return []
FetchAIGeneratedNews(cat, n, resp) ==
    LET r == GeneratedTry(cat, n, resp)
    IN  IF r.raised THEN [raised |-> FALSE, items |-> <<>>] ELSE r

----------------------------------------------------------------------------
(* fetch_news_with_catchy_titles as a state machine: one action per stretch *)
(* of code between two awaits                                              *)

NoResp == [kind |-> "none"]
NoCalls == [search |-> 0, rewrite |-> 0, fallback |-> 0]

Items(kept) == [k \in 1..Len(kept) |-> kept[k].item]
Indices(kept) == [k \in 1..Len(kept) |-> kept[k].i]

RankIdle ==
    /\ rpc = "idle"
    /\ all_news = <<>>
    /\ n_items = 0
    /\ rank_resp = NoResp
    /\ sections = <<>>
    /\ rank_path = "none"

DedupeIdle ==
    /\ dpc = "idle"
    /\ items = <<>>
    /\ unique_items = <<>>

Requests == {1, 2}

NoRoute == [op |-> "none"]

PipelineIdle ==
    /\ requests = [r \in Requests |-> [pc |-> "absent"]]
    /\ g_all_news = [r \in Requests |-> <<>>]
    /\ news_cache = <<>>

CampaignIdle ==
    /\ settings = [ACTIVECAMPAIGN_URL |-> "", ACTIVECAMPAIGN_API_KEY |-> ""]
    /\ service_instance = "None"
    /\ apc = "idle"
    /\ route = NoRoute
    /\ message_id = "None"
    /\ http_log = <<>>
    /\ outcome = [kind |-> "none"]
    /\ served = 0

SectionIdle ==
    /\ spc = "idle"
    /\ section_description = <<>>
    /\ s_num_items = 0
    /\ related_resp = NoResp
    /\ cat_items = <<>>
    /\ s_result = <<>>
    /\ s_src = <<>>
    /\ s_path = "none"
    /\ s_calls = <<>>

InitFetch ==
    /\ pc = "start"
    /\ category \in Categories
    /\ num_items \in NumItems
    /\ search_resp = NoResp
    /\ raw_articles = <<>>
    /\ original_data = <<>>
    /\ titles_only = <<>>
    /\ rewrite_resp = NoResp
    /\ fallback_resp = NoResp
    /\ result = <<>>
    /\ result_src = <<>>
    /\ path = "none"
    /\ calls = NoCalls
    /\ RankIdle
    /\ DedupeIdle
    /\ SectionIdle
    /\ PipelineIdle
    /\ CampaignIdle

\* lines 108-146: build the prompt and issue the search call
CallSearch ==
    /\ pc = "start"
    /\ pc' = "search"
    /\ calls' = [calls EXCEPT !.search = @ + 1]
    /\ UNCHANGED <<category, num_items, search_resp, raw_articles, original_data,
                   titles_only, rewrite_resp, fallback_resp, result, result_src, path>>
    /\ UNCHANGED <<rankVars, dedupeVars, sectionVars, pipelineVars, campaignVars>>

\* lines 143-197 and 248-250: the search call returns (or raises); parse it, then
\* either issue the rewrite call or call _fetch_ai_generated_news
SearchReturn ==
    /\ pc = "search"
    /\ \E resp \in SearchResponses :
        LET step == SearchStep(resp)
        IN  /\ search_resp' = resp
            /\ IF step.next = "rewrite"
               THEN /\ raw_articles' = step.raw
                    /\ original_data' = OriginalDataOf(step.raw)
                    /\ titles_only' = TitlesOnlyOf(step.raw)
                    /\ pc' = "rewrite"
                    /\ path' = path
                    /\ calls' = [calls EXCEPT !.rewrite = @ + 1]
               ELSE /\ pc' = "fallback"
                    /\ path' = step.next
                    /\ calls' = [calls EXCEPT !.fallback = @ + 1]
                    /\ UNCHANGED <<raw_articles, original_data, titles_only>>
    /\ UNCHANGED <<category, num_items, rewrite_resp, fallback_resp, result, result_src>>
    /\ UNCHANGED <<rankVars, dedupeVars, sectionVars, pipelineVars, campaignVars>>

\* lines 195-250: the rewrite call returns (or raises); merge and return, or on
\* any exception call _fetch_ai_generated_news
RewriteReturn ==
    /\ pc = "rewrite"
    /\ \E resp \in RewriteResponses :
        LET step == MergeStep(category, num_items, raw_articles, original_data, resp)
        IN  /\ rewrite_resp' = resp
            /\ IF step.raised
               THEN /\ pc' = "fallback"
                    /\ path' = "except"
                    /\ calls' = [calls EXCEPT !.fallback = @ + 1]
                    /\ UNCHANGED <<result, result_src>>
               ELSE /\ pc' = "done"
                    /\ path' = "search"
                    /\ result' = Items(step.kept)
                    /\ result_src' = Indices(step.kept)
                    /\ calls' = calls
    /\ UNCHANGED <<category, num_items, search_resp, raw_articles, original_data,
                   titles_only, fallback_resp>>
    /\ UNCHANGED <<rankVars, dedupeVars, sectionVars, pipelineVars, campaignVars>>

\* lines 286-320, reached from line 160 or 250: the fallback call returns (or
\* raises) and its result is returned to the caller
FallbackReturn ==
    /\ pc = "fallback"
    /\ \E resp \in FallbackResponses :
        LET r == FetchAIGeneratedNews(category, num_items, resp)
        IN  /\ fallback_resp' = resp
            /\ IF r.raised
               THEN /\ pc' = "raised"
                    /\ result' = result
               ELSE /\ pc' = "done"
                    /\ result' = r.items
    /\ UNCHANGED <<category, num_items, search_resp, raw_articles, original_data,
                   titles_only, rewrite_resp, result_src, path, calls>>
    /\ UNCHANGED <<rankVars, dedupeVars, sectionVars, pipelineVars, campaignVars>>

NextFetch == CallSearch \/ SearchReturn \/ RewriteReturn \/ FallbackReturn

SpecFetch == InitFetch /\ [][NextFetch]_vars

----------------------------------------------------------------------------
(* rank_and_assign_to_sections and _simple_distribution.  The flattened    *)
(* list all_items is modelled by its length: an item is its position.      *)

SectionKeys == <<"main-story", "main-story-summary", "second-story", "third-story",
                 "trendsetter", "top-news", "links">>

\* the values an index list of the ranking response may carry
IndexPool == {Int_(0), Int_(2), Int_(-1), NonInt, Bool_(TRUE)}

List(v) == [t |-> "list", v |-> v]

\* the value of one section key: a list of at most two indices, or a number
IndexLists ==
    {List(<<>>)} \cup {List(<<a>>) : a \in IndexPool}
    \cup {List(<<a, b>>) : a \in IndexPool, b \in IndexPool}
    \cup {Int_(1)}

RankKeys == {"second-story", "third-story", "bonus"}

Section(k, v) == [key |-> k, indices |-> v]

\* the "assignments" object, in the order of its keys: at most two keys
AssignmentObjects ==
    {<<>>} \cup {<<Section(k, v)>> : k \in RankKeys, v \in IndexLists}
    \cup UNION {{<<Section(k1, v1), Section(k2, v2)>> :
                    k2 \in RankKeys \ {k1}, v1 \in IndexLists, v2 \in IndexLists} :
                 k1 \in RankKeys}

RankResponses ==
    {Raise, Garbage, Text(<<>>), Plain(NotADict), Plain(Dict(<<>>)),
     Plain(Dict([assignments |-> NotADict])),
     Fenced(Dict([assignments |-> Dict(<<Section("second-story", List(<<Int_(2)>>)),
                                          Section("third-story", List(<<Int_(2)>>))>>)]))}
    \cup {Plain(Dict([assignments |-> Dict(a)])) : a \in AssignmentObjects}

Range(f) == {f[x] : x \in DOMAIN f}

\* isinstance(idx, int): a JSON integer, or a JSON boolean (bool is a subclass of int)
IsInt(idx) == idx.t \in {"int", "bool"}

\* the integer an index counts as: True is 1, False is 0
IntOf(idx) == IF idx.t = "bool" THEN (IF idx.v THEN 1 ELSE 0) ELSE idx.v

\* mutant of KeepIndex: the used_indices test is missing
KeepIndex_NoUsed(idx, used, n) == IsInt(idx) /\ 0 <= IntOf(idx) /\ IntOf(idx) < n

\* mutant of KeepIndex: the lower bound is missing (a negative index counts from the end)
KeepIndex_NoLowerBound(idx, used, n) ==
    IsInt(idx) /\ IntOf(idx) < n /\ IntOf(idx) \notin used

\* isinstance(idx, int) and 0 <= idx < len(all_items) and idx not in used_indices
KeepIndex(idx, used, n) ==
    IsInt(idx) /\ 0 <= IntOf(idx) /\ IntOf(idx) < n /\ IntOf(idx) \notin used

\* the inner loop, lines 397-400: the positions kept for one section
RECURSIVE FilterIndices(_, _, _)
FilterIndices(indices, used, n) ==
    IF indices = <<>> THEN <<>>
    ELSE IF KeepIndex(Head(indices), used, n)
         THEN <<IntOf(Head(indices))>>
              \o FilterIndices(Tail(indices), used \cup {IntOf(Head(indices))}, n)
         ELSE FilterIndices(Tail(indices), used, n)

\* the outer loop, lines 395-400
RECURSIVE AssignSections(_, _, _)
AssignSections(assignments, used, n) ==
    IF assignments = <<>> THEN <<>>
    ELSE LET kept == FilterIndices(Head(assignments).indices.v, used, n)
         IN  <<[key |-> Head(assignments).key, items |-> kept]>>
             \o AssignSections(Tail(assignments), used \cup Range(kept), n)

\* the categories of all_news, in the order fetch_all_categories fills the map
NewsCategories == <<"seo", "ppc", "social_media", "website">>

\* num_items=4: the most items fetch_all_categories asks for per category
PerCategory == 4

\* the items of one category: the j-th item of category c is <<c, j>>
CategoryItems(c, len) == [j \in 1..len |-> <<c, j>>]

\* an all_news map with the given number of items per category
AllNews(lens) ==
    [c \in 1..Len(NewsCategories) |->
        [category |-> NewsCategories[c], items |-> CategoryItems(NewsCategories[c], lens[c])]]

\* lines 337-339: all_items.extend(items) for each category in the map's order
RECURSIVE FlattenNews(_)
FlattenNews(news) ==
    IF news = <<>> THEN <<>>
    ELSE FlattenNews(SubSeq(news, 1, Len(news) - 1)) \o news[Len(news)].items

Min(a, b) == IF a < b THEN a ELSE b
Max(a, b) == IF a > b THEN a ELSE b

\* n items, filling the categories in order
FrontLoaded(n) ==
    AllNews([c \in 1..Len(NewsCategories) |->
                Max(0, Min(PerCategory, n - PerCategory * (c - 1)))])

\* mutant of Slice: the upper end is taken as included
Slice_Inclusive(a, b, n) ==
    LET hi == IF b + 1 < n THEN b + 1 ELSE n
    IN  [k \in 1..(IF hi > a THEN hi - a ELSE 0) |-> a + k - 1]

\* items[a:b] as positions
Slice(a, b, n) ==
    LET hi == IF b < n THEN b ELSE n
    IN  [k \in 1..(IF hi > a THEN hi - a ELSE 0) |-> a + k - 1]

\* _simple_distribution(items), lines 408-419
SimpleDistribution(n) ==
    << [key |-> "main-story",         items |-> IF n > 0 THEN Slice(0, 1, n) ELSE <<>>],
       [key |-> "main-story-summary", items |-> IF n > 0 THEN Slice(0, 1, n) ELSE <<>>],
       [key |-> "second-story",       items |-> IF n > 1 THEN Slice(1, 2, n) ELSE <<>>],
       [key |-> "third-story",        items |-> IF n > 2 THEN Slice(2, 3, n) ELSE <<>>],
       [key |-> "trendsetter",        items |-> IF n > 3 THEN Slice(3, 5, n) ELSE <<>>],
       [key |-> "top-news",           items |-> IF n > 5 THEN Slice(5, 8, n) ELSE <<>>],
       [key |-> "links",              items |-> IF n > 8 THEN Slice(8, 11, n) ELSE <<>>] >>

\* if not all_items: return {}
EmptyInputResult == <<>>

\* lines 383-406: parse the ranking response and assign, or on any exception
\* return _simple_distribution(all_items)
RankStep(n, resp) ==
    LET parsed == ParseResponse(resp)
    IN  IF ~parsed.ok \/ parsed.json.shape # "dict"
        THEN [by |-> "fallback", sections |-> SimpleDistribution(n)]
        ELSE LET assignments == Get(parsed.json.d, "assignments", Dict(<<>>))
             IN  IF \/ assignments.shape # "dict"
                    \/ \E k \in 1..Len(assignments.d) : assignments.d[k].indices.t # "list"
                 THEN [by |-> "fallback", sections |-> SimpleDistribution(n)]
                 ELSE [by |-> "ranked", sections |-> AssignSections(assignments.d, {}, n)]

FetchIdle ==
    /\ pc = "idle"
    /\ category = "seo"
    /\ num_items = 0
    /\ search_resp = NoResp
    /\ raw_articles = <<>>
    /\ original_data = <<>>
    /\ titles_only = <<>>
    /\ rewrite_resp = NoResp
    /\ fallback_resp = NoResp
    /\ result = <<>>
    /\ result_src = <<>>
    /\ path = "none"
    /\ calls = NoCalls

InitRank ==
    /\ rpc = "start"
    /\ all_news \in {FrontLoaded(n) : n \in 0..MaxItems}
    /\ n_items = Len(FlattenNews(all_news))
    /\ rank_resp = NoResp
    /\ sections = <<>>
    /\ rank_path = "none"
    /\ FetchIdle
    /\ DedupeIdle
    /\ SectionIdle
    /\ PipelineIdle
    /\ CampaignIdle

\* lines 337-342: flatten; an empty list returns at once
RankEmpty ==
    /\ rpc = "start"
    /\ n_items = 0
    /\ rpc' = "done"
    /\ sections' = EmptyInputResult
    /\ rank_path' = "empty"
    /\ UNCHANGED <<all_news, n_items, rank_resp>>
    /\ UNCHANGED <<fetchVars, dedupeVars, sectionVars, pipelineVars, campaignVars>>

\* lines 344-381: build the digest and issue the ranking call
CallRank ==
    /\ rpc = "start"
    /\ n_items > 0
    /\ rpc' = "rank"
    /\ UNCHANGED <<all_news, n_items, rank_resp, sections, rank_path>>
    /\ UNCHANGED <<fetchVars, dedupeVars, sectionVars, pipelineVars, campaignVars>>

\* lines 378-406: the ranking call returns (or raises)
RankReturn ==
    /\ rpc = "rank"
    /\ \E resp \in RankResponses :
        LET step == RankStep(n_items, resp)
        IN  /\ rank_resp' = resp
            /\ sections' = step.sections
            /\ rank_path' = step.by
    /\ rpc' = "done"
    /\ UNCHANGED <<all_news, n_items>>
    /\ UNCHANGED <<fetchVars, dedupeVars, sectionVars, pipelineVars, campaignVars>>

NextRank == RankEmpty \/ CallRank \/ RankReturn

SpecRank == InitRank /\ [][NextRank]_vars

----------------------------------------------------------------------------
(* _simple_distribution called on its own, on the flattened list of any    *)
(* all_news map (the empty one included)                                   *)

Sum4(lens) == lens[1] + lens[2] + lens[3] + lens[4]

AllNewsInputs ==
    {AllNews(lens) : lens \in {l \in [1..Len(NewsCategories) -> 0..PerCategory] :
                                  Sum4(l) <= MaxItems}}

InitDist ==
    /\ rpc = "start"
    /\ all_news \in AllNewsInputs
    /\ n_items = Len(FlattenNews(all_news))
    /\ rank_resp = NoResp
    /\ sections = <<>>
    /\ rank_path = "none"
    /\ FetchIdle
    /\ DedupeIdle
    /\ SectionIdle
    /\ PipelineIdle
    /\ CampaignIdle

\* lines 337-339 and 408-419: flatten, then _simple_distribution(all_items)
Distribute ==
    /\ rpc = "start"
    /\ rpc' = "done"
    /\ sections' = SimpleDistribution(Len(FlattenNews(all_news)))
    /\ rank_path' = "direct"
    /\ UNCHANGED <<all_news, n_items, rank_resp>>
    /\ UNCHANGED <<fetchVars, dedupeVars, sectionVars, pipelineVars, campaignVars>>

NextDist == Distribute

SpecDist == InitDist /\ [][NextDist]_vars

----------------------------------------------------------------------------
(* Properties of rank_and_assign_to_sections (checked under SpecRank) *)

\* all positions of a section map, section after section
RECURSIVE Positions(_)
Positions(secs) == IF secs = <<>> THEN <<>> ELSE Head(secs).items \o Positions(Tail(secs))

NoDuplicates(seq) == \A i, j \in 1..Len(seq) : i # j => seq[i] # seq[j]

\* the occurrences of position p: <<section key, place in the section>>
Occurrences(secs, p) ==
    UNION {{<<secs[k].key, j>> : j \in {x \in 1..Len(secs[k].items) : secs[k].items[x] = p}} :
           k \in 1..Len(secs)}

\* C1 as stated: in every output of rank_and_assign_to_sections, from the ranking
\* model's answer or from the _simple_distribution fallback, no position of the
\* flattened list appears twice over all sections.
C1_AsStated == rpc = "done" => NoDuplicates(Positions(sections))

\* C1 amended: an output built from the ranking model's answer uses no position
\* twice; in a _simple_distribution output the only position used twice is 0, once
\* in main-story and once in main-story-summary.
C1_AssignmentUniqueness ==
    rpc = "done" =>
        /\ rank_path # "fallback" => NoDuplicates(Positions(sections))
        /\ rank_path = "fallback" =>
            /\ \A p \in 1..MaxItems : Cardinality(Occurrences(sections, p)) <= 1
            /\ Occurrences(sections, 0) \subseteq {<<"main-story", 1>>, <<"main-story-summary", 1>>}

\* C1 witness: the ranking model named index 2 under two sections of a 12-item list
\* and the output holds it once.
C1_Witness ==
    /\ rpc = "done"
    /\ rank_path = "ranked"
    /\ n_items = 12
    /\ rank_resp = Fenced(Dict([assignments |->
            Dict(<<Section("second-story", List(<<Int_(2)>>)),
                   Section("third-story", List(<<Int_(2)>>))>>)]))
    /\ Positions(sections) = <<2>>

\* C2 as stated: on an empty flattened list rank_and_assign_to_sections returns all
\* seven section keys, each mapped to an empty sequence.
C2_EmptyInputSevenKeys ==
    (rpc = "done" /\ n_items = 0) =>
        sections = [k \in 1..Len(SectionKeys) |-> [key |-> SectionKeys[k], items |-> <<>>]]

----------------------------------------------------------------------------
(* Properties of fetch_news_with_catchy_titles (checked under SpecFetch) *)

NewsItemFields == {"category", "title", "publisher", "published_date", "url", "summary",
                   "why_it_matters", "tags"}

\* the raw records the merge loop visits: raw_articles[:num_items]
Visited == 1..Len(Take(raw_articles, num_items))

RawUrl(article) == Get(article, "url", EmptyStr)
RawTitle(article) == Get(article, "title", "")

\* the record has a url that is a string, and trimmed it is neither empty nor the placeholder
GatePasses(article) ==
    /\ RawUrl(article).t = "str"
    /\ Strip(RawUrl(article).v) # <<>>
    /\ Strip(RawUrl(article).v) # Placeholder

\* some visited record passes the gate and has a title
SomeVisitedValid ==
    \E k \in Visited : GatePasses(raw_articles[k]) /\ RawTitle(raw_articles[k]) # ""

\* the rewrite call was made and its outcome is not a JSON text (it raised, or
\* json.loads fails on it)
RewriteUnparseable == rewrite_resp # NoResp /\ ~ParseResponse(rewrite_resp).ok

\* the rewrite call was made and gave a usable {"titles": [...]} object
RewriteUsable ==
    /\ rewrite_resp # NoResp
    /\ ParseResponse(rewrite_resp).ok
    /\ ParseResponse(rewrite_resp).json.shape = "dict"
    /\ ~CatchyMapRaises(Get(ParseResponse(rewrite_resp).json.d, "titles", <<>>))

\* C3 as stated: no item returned by fetch_news_with_catchy_titles, on any return
\* path, has url "" or the placeholder "https://...".
C3_AsStated ==
    pc = "done" =>
        \A k \in 1..Len(result) : result[k].url.v # <<>> /\ result[k].url.v # Placeholder

\* C3 amended: every item returned on the search-derived return path was built from
\* a record whose url is present and, trimmed, neither empty nor the placeholder,
\* and its own url is non-empty and starts with "http".
C3_UrlGate ==
    (pc = "done" /\ path = "search") =>
        \A k \in 1..Len(result) :
            /\ GatePasses(raw_articles[result_src[k] + 1])
            /\ result[k].url.t = "str"
            /\ result[k].url.v # <<>>
            /\ StartsWithHttp(result[k].url.v)

\* C3 witness: a search-path result that kept a record and skipped a visited one
\* whose url is missing, blank or the placeholder.
C3_Witness ==
    /\ pc = "done"
    /\ path = "search"
    /\ result # <<>>
    /\ \E k \in Visited : ~GatePasses(raw_articles[k])

\* C4 as stated: when the rewrite response cannot be parsed (or the call fails) the
\* search-derived items that pass the url gate are still returned with their
\* original titles, and no fallback-generated items replace them.
C4_RewriteFailureKeepsItems ==
    (pc = "done" /\ RewriteUnparseable /\ SomeVisitedValid) =>
        /\ path = "search"
        /\ calls.fallback = 0
        /\ \A k \in Visited :
              (GatePasses(raw_articles[k]) /\ RawTitle(raw_articles[k]) # "")
                  => \E j \in 1..Len(result) :
                        /\ result_src[j] = k - 1
                        /\ result[j].title = RawTitle(raw_articles[k])

\* C5: fetch_news_with_catchy_titles never raises; it returns a sequence of
\* NewsItem, and whenever the search call or its parsing failed the fallback
\* generator was called (once) and the rewrite model was not.
C5_NeverRaises ==
    /\ pc # "raised"
    /\ pc = "done" => \A k \in 1..Len(result) : DOMAIN result[k] = NewsItemFields
    /\ (pc \in {"fallback", "done"} /\ SearchStep(search_resp).next = "except")
          => (calls.fallback = 1 /\ calls.rewrite = 0 /\ path = "except")
    /\ (pc = "done" /\ path # "search") => fallback_resp # NoResp

\* C5 witness: the search call raised, the fallback call raised too, and the
\* operation returned an empty sequence.
C5_Witness ==
    /\ pc = "done"
    /\ search_resp = Raise
    /\ fallback_resp = Raise
    /\ result = <<>>

\* C6 as stated: a record failing the url gate (url missing, null, empty, blank or
\* the placeholder) is skipped alone: with a usable rewrite response the other
\* visited records that pass the gate are returned and the fallback generator is
\* not invoked.
C6_InvalidRecordSkippedAlone ==
    (pc \in {"fallback", "done"} /\ RewriteUsable /\ SomeVisitedValid
        /\ \E k \in Visited : ~GatePasses(raw_articles[k])) =>
        /\ calls.fallback = 0
        /\ pc = "done" =>
              \A k \in Visited :
                  (GatePasses(raw_articles[k]) /\ RawTitle(raw_articles[k]) # "")
                      => \E j \in 1..Len(result) : result_src[j] = k - 1

\* the entries of the rewrite response, as the rewriter returned them
RewriteEntries == Get(ParseResponse(rewrite_resp).json.d, "titles", <<>>)

\* the places of the rewrite response that carry index i
EntriesFor(i) ==
    {e \in 1..Len(RewriteEntries) :
        "index" \in DOMAIN RewriteEntries[e] /\ RewriteEntries[e].index = Int_(i)}

\* the rewriter's catchy_title for index i ("" when it gave none)
RewrittenTitle(i) ==
    IF EntriesFor(i) = {} THEN ""
    ELSE LET last == CHOOSE e \in EntriesFor(i) : \A f \in EntriesFor(i) : f <= e
         IN  Get(RewriteEntries[last], "catchy_title", "")

\* C7: on the search path every kept item built from raw record i carries the
\* rewriter's catchy_title for index i when that is non-empty and the raw title of
\* record i otherwise; a rewritten title never lands on another index.
C7_TitleMerge ==
    (pc = "done" /\ path = "search") =>
        \A k \in 1..Len(result) :
            LET i == result_src[k]
            IN  result[k].title =
                    IF RewrittenTitle(i) # "" THEN RewrittenTitle(i)
                    ELSE RawTitle(raw_articles[i + 1])

\* C7 witness: three raw records, a mapping covering indices 0 and 2 only; the
\* result has the rewritten titles at 0 and 2 and the raw title at 1.
C7_Witness ==
    /\ pc = "done"
    /\ path = "search"
    /\ Len(raw_articles) = 3
    /\ result_src = <<0, 1, 2>>
    /\ {i \in 0..2 : EntriesFor(i) # {}} = {0, 2}
    /\ result[1].title = "C1"
    /\ result[2].title = RawTitle(raw_articles[2])
    /\ result[3].title = "C2"

\* url.strip(), prefixed with "https://" unless it starts with "http"
TrimmedWithScheme(url) ==
    IF StartsWithHttp(Strip(url)) THEN Strip(url) ELSE <<HTTPS>> \o Strip(url)

\* C8: on the search path every field other than title of an item built from raw
\* record i comes from record i of the search response (the fixed default when
\* absent; the url trimmed and given a scheme), whatever the rewriter returned.
C8_ProvenanceFrame ==
    (pc = "done" /\ path = "search") =>
        \A k \in 1..Len(result) :
            LET a == raw_articles[result_src[k] + 1]
            IN  /\ result[k].publisher = Get(a, "publisher", "Industry Source")
                /\ result[k].published_date = Get(a, "published_date", "2026-01-12")
                /\ result[k].summary = Get(a, "summary", "")
                /\ result[k].why_it_matters = Get(a, "why_it_matters", "")
                /\ result[k].url = Str(TrimmedWithScheme(RawUrl(a).v))
                /\ result[k].category = category
                /\ result[k].tags = <<category, "digital-marketing">>

\* C8 witness: the rewriter returned a url, publisher, date, summary and impact
\* note of its own for index 0; the item built from record 0 took its title only.
C8_Witness ==
    /\ pc = "done"
    /\ path = "search"
    /\ result # <<>>
    /\ result_src[1] = 0
    /\ EntriesFor(0) # {}
    /\ \E e \in EntriesFor(0) : "url" \in DOMAIN RewriteEntries[e]
    /\ result[1].title = "C2"
    /\ raw_articles[1] = A_bare
    /\ result[1].url = Str(<<HTTPS, "b.com">>)
    /\ result[1].publisher = "Industry Source"

\* C9: each element handed to the title-rewrite model is exactly {index, title},
\* and it is the same for any record with the same title at the same position,
\* whatever its url, publisher, published_date, summary and why_it_matters.
C9_RewriteInputTitlesOnly ==
    calls.rewrite > 0 =>
        /\ Len(titles_only) = Len(raw_articles)
        /\ \A k \in 1..Len(titles_only) :
              /\ DOMAIN titles_only[k] = {"index", "title"}
              /\ titles_only[k].index = k - 1
              /\ \A other \in ArticlePool :
                    RawTitle(other) = RawTitle(raw_articles[k])
                        => TitleProjection(k - 1, other) = titles_only[k]

\* C9 witness: the rewrite call was issued for a response with two records that
\* differ in their url and provenance fields.
C9_Witness ==
    /\ pc = "rewrite"
    /\ calls.rewrite = 1
    /\ Len(raw_articles) = 2
    /\ raw_articles[1] = A_good
    /\ raw_articles[2] = A_dots
    /\ titles_only = <<[index |-> 0, title |-> "T1"], [index |-> 1, title |-> "T1"]>>

\* the search response parses to an object whose news array is empty or absent
SearchNewsEmpty ==
    /\ search_resp # NoResp
    /\ ParseResponse(search_resp).ok
    /\ ParseResponse(search_resp).json.shape = "dict"
    /\ Get(ParseResponse(search_resp).json.d, "news", <<>>) = <<>>

\* C10: when the search response parses to an empty (or absent) news array the
\* result is what _fetch_ai_generated_news returns for the same category and
\* count, and the title-rewrite model is not called.
C10_EmptyNewsDelegates ==
    SearchNewsEmpty =>
        /\ pc \in {"fallback", "done"}
        /\ calls.rewrite = 0
        /\ rewrite_resp = NoResp
        /\ calls.fallback = 1
        /\ pc = "done" =>
              result = FetchAIGeneratedNews(category, num_items, fallback_resp).items

\* C10 witness: the search model returned news: [] and the fallback generator's
\* items were returned.
C10_Witness ==
    /\ pc = "done"
    /\ search_resp = Plain(Dict([news |-> <<>>]))
    /\ calls.rewrite = 0
    /\ result # <<>>
    /\ result[1].title = "F1"

----------------------------------------------------------------------------
(* _dedupe_items, lines 81-95.  A title is a sequence of characters; SP is *)
(* a white-space character.                                                *)

\* the number of characters of the title that make the fingerprint, line 88
PrefixLen == 50

\* str.lower() on one character
LowerChar(c) == CASE c = "A" -> "a" [] c = "B" -> "b" [] c = "X" -> "x" [] OTHER -> c

\* str.lower()
Lower(t) == [i \in 1..Len(t) |-> LowerChar(t[i])]

\* mutant of TitlePrefix: the title is cut before it is trimmed
TitlePrefix_CutFirst(title) == Strip(Take(Lower(title), PrefixLen))

\* item.title.lower().strip()[:50]
TitlePrefix(title) == Take(Strip(Lower(title)), PrefixLen)

\* hashlib.md5(prefix.encode()).hexdigest(): equal digests for equal prefixes;
\* distinct prefixes are taken to have distinct digests
Md5(prefix) == [md5 |-> prefix]

\* title_hash of an item whose title is a character sequence
TitleHash(title) == Md5(TitlePrefix(title))

\* the loop of lines 86-93 over items whose fingerprints are hashes[i]
RECURSIVE DedupeLoop(_, _, _, _, _)
DedupeLoop(its, hashes, i, seen_hashes, unique) ==
    IF i > Len(its) THEN unique
    ELSE IF hashes[i] \notin seen_hashes
         THEN DedupeLoop(its, hashes, i + 1, seen_hashes \cup {hashes[i]},
                         Append(unique, its[i]))
         ELSE DedupeLoop(its, hashes, i + 1, seen_hashes, unique)

\* _dedupe_items(items)
DedupeItems(its) ==
    DedupeLoop(its, [i \in 1..Len(its) |-> TitleHash(its[i].title)], 1, {}, <<>>)

Rep(c, n) == [i \in 1..n |-> c]

\* titles: equal up to case and surrounding white space, different inside, empty,
\* and longer than PrefixLen with the difference before or after the cut
TitlePool ==
    { <<"a", "b">>, <<"A", "B">>, <<SP, "a", "b", SP>>, <<"a", SP, "b">>,
      <<>>, <<SP>>,
      Rep("x", PrefixLen) \o <<"y">>,
      Rep("X", PrefixLen) \o <<"z">>,
      <<SP>> \o Rep("x", PrefixLen) \o <<"y">>,
      Rep("x", PrefixLen - 1) \o <<"y">>,
      Rep("x", PrefixLen - 1) \o <<"z">> }

\* the items handed to _dedupe_items: a title and a url that tells copies apart
DedupeInputs ==
    UNION {{[k \in 1..n |-> [title |-> ts[k], url |-> k]] : ts \in [1..n -> TitlePool]}
           : n \in 0..MaxDedupe}

InitDedupe ==
    /\ dpc = "start"
    /\ items \in DedupeInputs
    /\ unique_items = <<>>
    /\ FetchIdle
    /\ RankIdle
    /\ SectionIdle
    /\ PipelineIdle
    /\ CampaignIdle

Dedupe ==
    /\ dpc = "start"
    /\ dpc' = "done"
    /\ unique_items' = DedupeItems(items)
    /\ UNCHANGED items
    /\ UNCHANGED <<fetchVars, rankVars, sectionVars, pipelineVars, campaignVars>>

NextDedupe == Dedupe

SpecDedupe == InitDedupe /\ [][NextDedupe]_vars

----------------------------------------------------------------------------
(* search_news_for_section, lines 427-553.  section_description is a       *)
(* sequence of tokens: the directive text, a space, a double quote, words. *)

DIRECTIVE == "Find news related to:"
QUOTE == "\""

\* is_related_search = "Find news related to:" in section_description
\* (mutant: the whole quoted pattern is asked for)
IsRelatedSearch_FullPattern(desc) ==
    \E i \in 1..Len(desc) : \E j \in (i + 4)..Len(desc) :
        /\ desc[i] = DIRECTIVE /\ desc[i + 1] = SP /\ desc[i + 2] = QUOTE
        /\ desc[j] = QUOTE
        /\ \A k \in (i + 3)..(j - 1) : desc[k] # QUOTE

IsRelatedSearch(desc) == \E i \in 1..Len(desc) : desc[i] = DIRECTIVE

\* the place of the quote closing a topic opened at i + 2, 0 when there is none
ClosingQuote(desc, i) ==
    LET later == {j \in (i + 3)..Len(desc) : desc[j] = QUOTE}
    IN  IF later = {} THEN 0 ELSE CHOOSE j \in later : \A j2 \in later : j <= j2

\* does r'Find news related to: "([^"]+)"' match at place i
MatchesAt(desc, i) ==
    /\ i + 3 <= Len(desc)
    /\ desc[i] = DIRECTIVE /\ desc[i + 1] = SP /\ desc[i + 2] = QUOTE
    /\ ClosingQuote(desc, i) > i + 3

\* match = re.search(...); topic = match.group(1) if match else section_description
Topic(desc) ==
    LET starts == {i \in 1..Len(desc) : MatchesAt(desc, i)}
    IN  IF starts = {} THEN desc
        ELSE LET i == CHOOSE i1 \in starts : \A i2 \in starts : i1 <= i2
             IN  SubSeq(desc, i + 3, ClosingQuote(desc, i) - 1)

\* json_match = re.search(r'\{.*\}', clean_result, re.DOTALL): from the first
\* brace to the last one; only JSON objects hold braces
ExtractObject(t) ==
    LET braces == {k \in 1..Len(t) : t[k].tok = "json" /\ t[k].json.shape = "dict"}
    IN  IF braces = {} THEN t
        ELSE SubSeq(t, CHOOSE k \in braces : \A k2 \in braces : k <= k2,
                       CHOOSE k \in braces : \A k2 \in braces : k >= k2)

\* mutant of RelatedGate: the startswith("http") test is missing
RelatedGate_NoScheme(url) == url # <<>> /\ url # Placeholder

\* if url and url != "https://..." and url.startswith("http")
RelatedGate(url) == url # <<>> /\ url # Placeholder /\ StartsWithHttp(url)

\* NewsItem(category="related", ...) of lines 520-529
RelatedItem(article) ==
    [category |-> "related",
     title |-> Get(article, "title", ""),
     publisher |-> Get(article, "publisher", DefaultPublisher),
     published_date |-> Get(article, "published_date", DefaultDate),
     url |-> Str(Strip(Get(article, "url", EmptyStr).v)),
     summary |-> Get(article, "summary", ""),
     why_it_matters |-> Get(article, "why_it_matters", ""),
     tags |-> <<"related", "digital-marketing">>]

\* article.get("url", "").strip() raises unless article is an object whose url is a string
RelatedRaises(articles) ==
    \E k \in 1..Len(articles) :
        \/ ~IsRecord(articles[k])
        \/ Get(articles[k], "url", EmptyStr).t # "str"

\* the loop of lines 516-531: the kept <<index, item>> pairs in order
RECURSIVE RelatedLoop(_, _)
RelatedLoop(articles, k) ==
    IF k = 0 THEN <<>>
    ELSE LET rest == RelatedLoop(articles, k - 1)
             item == RelatedItem(articles[k])
         IN  IF RelatedGate(item.url.v) /\ item.title # ""
             THEN Append(rest, [i |-> k - 1, item |-> item])
             ELSE rest

\* lines 486-535 without the except clause
RelatedTry(n, resp) ==
    IF resp.kind = "raise" THEN [raised |-> TRUE]
    ELSE LET parsed == JsonLoads(ExtractObject(CleanResult(resp.text)))
         IN  IF ~parsed.ok \/ parsed.json.shape # "dict" THEN [raised |-> TRUE]
             ELSE LET articles == Take(Get(parsed.json.d, "news", <<>>), n)
                  IN  IF RelatedRaises(articles) THEN [raised |-> TRUE]
                      ELSE [raised |-> FALSE, kept |-> RelatedLoop(articles, Len(articles))]

\* mutant of RelatedStep: the "if items" test is missing
RelatedStep_NoItemsTest(n, resp) ==
    LET r == RelatedTry(n, resp)
    IN  IF r.raised THEN [next |-> "generic"] ELSE [next |-> "return", kept |-> r.kept]

\* lines 485-540: return the related items when there are some; otherwise, and
\* on any exception, go on to the category-based search
RelatedStep(n, resp) ==
    LET r == RelatedTry(n, resp)
    IN  IF r.raised \/ r.kept = <<>> THEN [next |-> "generic"]
        ELSE [next |-> "return", kept |-> r.kept]

\* fetch_news_with_catchy_titles(cat, n) as a function of what its three model
\* calls answer (the answers not asked for are ignored)
FetchNews(cat, n, answers) ==
    LET step == SearchStep(answers.search)
        fallback == FetchAIGeneratedNews(cat, n, answers.fallback).items
    IN  IF step.next = "rewrite"
        THEN LET merged == MergeStep(cat, n, step.raw, OriginalDataOf(step.raw),
                                     answers.rewrite)
             IN  IF merged.raised THEN fallback ELSE Items(merged.kept)
        ELSE fallback

\* what the models answer during one category fetch: a search with rewritten
\* titles, a failed rewrite, a failed search, and everything failing
FetchAnswers ==
    { [search |-> Plain(Dict([news |-> <<A_good, A_bare>>])),
       rewrite |-> Plain(Dict([titles |-> <<Entry(0, "C1"), Entry(1, "C2")>>])),
       fallback |-> Raise],
      [search |-> Plain(Dict([news |-> <<A_bare, A_good>>])),
       rewrite |-> Garbage,
       fallback |-> Plain(Dict([news |-> <<F_one>>]))],
      [search |-> Raise,
       rewrite |-> Raise,
       fallback |-> Fenced(Dict([news |-> <<F_two, F_notitle, F_one, F_two>>]))],
      [search |-> Garbage, rewrite |-> Raise, fallback |-> Raise] }

\* items_per_cat = max(1, num_items // len(categories))
ItemsPerCat(n) == Max(1, n \div Len(NewsCategories))

RECURSIVE Concat(_)
Concat(lists) ==
    IF lists = <<>> THEN <<>>
    ELSE Concat(SubSeq(lists, 1, Len(lists) - 1)) \o lists[Len(lists)]

\* _dedupe_items over NewsItems, whose titles are single pieces of text
DedupeNews(its) ==
    DedupeLoop(its, [i \in 1..Len(its) |-> TitleHash(<<its[i].title>>)], 1, {}, <<>>)

\* return self._dedupe_items(items)[:num_items]
GenericResult(lists, n) == Take(DedupeNews(Concat(lists)), n)

RelatedCall(topic, n) == [to |-> "related", topic |-> topic, num_items |-> n]
FetchCall(cat, n) == [to |-> "fetch", category |-> cat, num_items |-> n]

R_http == [title |-> "T3", url |-> Str(<<SP, HTTP, "d.com">>), summary |-> "SumD"]

Descriptions ==
    { <<>>,
      <<"about seo">>,
      <<DIRECTIVE, SP, QUOTE, "ai", QUOTE, ". ", "about seo">>,
      <<"intro", SP, DIRECTIVE, SP, QUOTE, "ai", SP, "tools", QUOTE>>,
      <<DIRECTIVE, SP, "ai">>,
      <<DIRECTIVE, SP, QUOTE, QUOTE>>,
      <<DIRECTIVE, QUOTE, "ai", QUOTE>>,
      <<DIRECTIVE, SP, QUOTE, "ai">>,
      <<DIRECTIVE, SP, QUOTE, QUOTE, DIRECTIVE, SP, QUOTE, "b", QUOTE>> }

\* num_items: none, fewer than the categories, two per category
SectionNumItems == {0, 2, 8}

RelatedResponses ==
    {Raise, Garbage, Plain(NotADict), Plain(Dict(<<>>)), Plain(Dict([news |-> <<>>])),
     Text(<<Json(Dict([news |-> <<A_good>>])), PROSE, Json(Dict(<<>>))>>)}
    \cup {Plain(Dict([news |-> a])) :
            a \in { <<A_bare, A_nourl, A_blank>>,
                    <<A_placeholder, A_dots, A_notitle>>,
                    <<A_good, A_null>>,
                    <<NotARecord>>,
                    <<A_good, A_bare, R_http>>,
                    <<A_notitle, R_http, A_good>> }}
    \cup {InProse(Dict([news |-> <<A_good>>])),
          Fenced(Dict([news |-> <<R_http, A_good, A_good>>]))}

InitSection ==
    /\ spc = "start"
    /\ section_description \in Descriptions
    /\ s_num_items \in SectionNumItems
    /\ related_resp = NoResp
    /\ cat_items = <<>>
    /\ s_result = <<>>
    /\ s_src = <<>>
    /\ s_path = "none"
    /\ s_calls = <<>>
    /\ FetchIdle
    /\ RankIdle
    /\ DedupeIdle
    /\ PipelineIdle
    /\ CampaignIdle

\* lines 437-490: the directive test, then the first await
Begin ==
    /\ spc = "start"
    /\ IF IsRelatedSearch(section_description)
       THEN /\ spc' = "related"
            /\ s_calls' = <<RelatedCall(Topic(section_description), s_num_items)>>
       ELSE /\ spc' = "fetch"
            /\ s_calls' = <<FetchCall(NewsCategories[1], ItemsPerCat(s_num_items))>>
    /\ UNCHANGED <<section_description, s_num_items, related_resp, cat_items,
                   s_result, s_src, s_path>>
    /\ UNCHANGED <<fetchVars, rankVars, dedupeVars, pipelineVars, campaignVars>>

\* lines 486-551: the related search returns (or raises); return its items, or
\* start the category-based search
RelatedReturn ==
    /\ spc = "related"
    /\ \E resp \in RelatedResponses :
        LET step == RelatedStep(s_num_items, resp)
        IN  /\ related_resp' = resp
            /\ IF step.next = "return"
               THEN /\ spc' = "done"
                    /\ s_result' = Items(step.kept)
                    /\ s_src' = Indices(step.kept)
                    /\ s_path' = "related"
                    /\ s_calls' = s_calls
               ELSE /\ spc' = "fetch"
                    /\ s_calls' = Append(s_calls,
                            FetchCall(NewsCategories[1], ItemsPerCat(s_num_items)))
                    /\ UNCHANGED <<s_result, s_src, s_path>>
    /\ UNCHANGED <<section_description, s_num_items, cat_items>>
    /\ UNCHANGED <<fetchVars, rankVars, dedupeVars, pipelineVars, campaignVars>>

\* lines 549-553: one fetch_news_with_catchy_titles returns; fetch the next
\* category, or after the last one dedupe, cut and return
FetchReturn ==
    /\ spc = "fetch"
    /\ \E answers \in FetchAnswers :
        LET c == Len(cat_items) + 1
            fetched == Append(cat_items,
                          FetchNews(NewsCategories[c], ItemsPerCat(s_num_items), answers))
        IN  /\ cat_items' = fetched
            /\ IF c < Len(NewsCategories)
               THEN /\ spc' = "fetch"
                    /\ s_calls' = Append(s_calls,
                            FetchCall(NewsCategories[c + 1], ItemsPerCat(s_num_items)))
                    /\ UNCHANGED <<s_result, s_path>>
               ELSE /\ spc' = "done"
                    /\ s_result' = GenericResult(fetched, s_num_items)
                    /\ s_path' = "generic"
                    /\ s_calls' = s_calls
    /\ UNCHANGED <<section_description, s_num_items, related_resp, s_src>>
    /\ UNCHANGED <<fetchVars, rankVars, dedupeVars, pipelineVars, campaignVars>>

NextSection == Begin \/ RelatedReturn \/ FetchReturn

SpecSection == InitSection /\ [][NextSection]_vars

----------------------------------------------------------------------------
(* generate_newsletter_recommendations, lines 421-425: fetch_all_categories *)
(* (322-330) and then rank_and_assign_to_sections, for requests served by  *)
(* one NewsService instance and interleaved at their awaits.  A request's  *)
(* locals are a record; one action per stretch of code between two awaits. *)

\* mutant of NewsOwner: all_news is kept on the instance, one map for all requests
NewsOwner_Instance(r) == 1

\* all_news = {} at line 324 is a local of the invocation: one map per request
NewsOwner(r) == r

\* which call follows the search call: the rewrite call (line 194), or the one made
\* by _fetch_ai_generated_news (lines 160 and 250)
AfterSearch(step) == IF step.next = "rewrite" THEN "rewrite" ELSE "fallback"

PipelineSearchResponses == {Raise, Plain(Dict([news |-> <<A_good, A_bare>>]))}

PipelineRewriteResponses ==
    {Plain(Dict([titles |-> <<Entry(0, "C1"), Entry(1, "C2")>>])), Garbage}

\* within the pipeline the fallback generator is given failing answers only
PipelineFallbackResponses == {Raise, Garbage}

PipelineRankResponses ==
    {Raise,
     Plain(Dict([assignments |->
        Dict(<<Section("main-story", List(<<Int_(1), Int_(0)>>)),
               Section("links", List(<<Int_(0), Int_(5)>>))>>)]))}

\* the locals of the fetch_news_with_catchy_titles invocation for category c
FetchLocals(c) ==
    [cat |-> c, search_resp |-> NoResp, rewrite_resp |-> NoResp, fallback_resp |-> NoResp,
     calls |-> [search |-> 1, rewrite |-> 0, fallback |-> 0], via |-> "none"]

\* the locals of a request that has not reached rank_and_assign_to_sections
NoRankLocals ==
    [all_items |-> <<>>, rank_calls |-> 0, rank_resp |-> NoResp, sections |-> <<>>,
     how |-> "none"]

\* a request that has not started
Waiting == [pc |-> "idle"]

\* line 326: the call of fetch_news_with_catchy_titles for category c, up to its
\* first await (the search call)
EnterFetch(frame, c) ==
    [f \in DOMAIN frame \cup DOMAIN FetchLocals(c) |->
        IF f = "pc" THEN "search"
        ELSE IF f = "fetched" THEN Append(frame.fetched, NewsCategories[c])
        ELSE IF f \in DOMAIN FetchLocals(c) THEN FetchLocals(c)[f]
        ELSE frame[f]]

\* lines 337-381 of rank_and_assign_to_sections, up to its first await or return
EnterRank(frame, news) ==
    LET all_items == FlattenNews(news)
    IN  IF all_items = <<>>
        THEN [frame EXCEPT !.pc = "done", !.all_items = all_items,
                           !.sections = EmptyInputResult, !.how = "empty"]
        ELSE [frame EXCEPT !.pc = "rank", !.all_items = all_items, !.rank_calls = @ + 1]

\* what the models answered during the fetch invocation in progress
AnswersOf(frame) ==
    [search |-> frame.search_resp, rewrite |-> frame.rewrite_resp,
     fallback |-> frame.fallback_resp]

\* lines 327-330 and 423-424: a fetch returned items; store them under the
\* category and go on to the next category, or to the ranking
FetchReturned(r, frame, got_items) ==
    LET entry == [category |-> NewsCategories[frame.cat], items |-> got_items]
        news == Append(g_all_news[NewsOwner(r)], entry)
        alone == Append(frame.alone,
                        [category |-> NewsCategories[frame.cat],
                         items |-> FetchNews(NewsCategories[frame.cat], PerCategory,
                                             AnswersOf(frame))])
        kept == [frame EXCEPT !.alone = alone]
    IN  /\ g_all_news' = [g_all_news EXCEPT ![NewsOwner(r)] = news]
        /\ requests' = [requests EXCEPT ![r] =
                IF frame.cat < Len(NewsCategories)
                THEN EnterFetch(kept, frame.cat + 1)
                ELSE EnterRank(kept, news)]

InitPipeline ==
    /\ requests = [r \in Requests |-> Waiting]
    /\ g_all_news = [r \in Requests |-> <<>>]
    /\ news_cache = <<>>
    /\ FetchIdle
    /\ RankIdle
    /\ DedupeIdle
    /\ SectionIdle
    /\ CampaignIdle

\* lines 423, 324-326 and 97-146: the request starts; all_news = {}; the first
\* category's search call is issued
StartRequest_(r) ==
    /\ requests[r].pc = "idle"
    /\ g_all_news' = [g_all_news EXCEPT ![NewsOwner(r)] = <<>>]
    /\ requests' = [requests EXCEPT ![r] =
            EnterFetch([pc |-> "idle", fetched |-> <<>>, alone |-> <<>>] @@ NoRankLocals, 1)]
    /\ UNCHANGED news_cache

\* lines 143-197 and 248-250, within the pipeline
PipelineSearchReturn_(r) ==
    /\ requests[r].pc = "search"
    /\ \E resp \in PipelineSearchResponses :
        LET step == SearchStep(resp)
            to == AfterSearch(step)
        IN  requests' = [requests EXCEPT ![r] =
                [@ EXCEPT !.pc = to, !.search_resp = resp, !.via = step.next,
                          !.calls = [@ EXCEPT ![to] = @ + 1]]]
    /\ UNCHANGED <<g_all_news, news_cache>>

\* lines 195-250, within the pipeline
PipelineRewriteReturn_(r) ==
    /\ requests[r].pc = "rewrite"
    /\ \E resp \in PipelineRewriteResponses :
        LET frame == [requests[r] EXCEPT !.rewrite_resp = resp]
            raw == SearchStep(frame.search_resp).raw
            step == MergeStep(NewsCategories[frame.cat], PerCategory, raw,
                              OriginalDataOf(raw), resp)
        IN  IF step.raised
            THEN /\ requests' = [requests EXCEPT ![r] =
                        [frame EXCEPT !.pc = "fallback", !.via = "except",
                                      !.calls = [@ EXCEPT !.fallback = @ + 1]]]
                 /\ UNCHANGED g_all_news
            ELSE FetchReturned(r, frame, Items(step.kept))
    /\ UNCHANGED news_cache

\* lines 286-320, within the pipeline; an exception leaving
\* _fetch_ai_generated_news would leave generate_newsletter_recommendations too
PipelineFallbackReturn_(r) ==
    /\ requests[r].pc = "fallback"
    /\ \E resp \in PipelineFallbackResponses :
        LET frame == [requests[r] EXCEPT !.fallback_resp = resp]
            got == FetchAIGeneratedNews(NewsCategories[frame.cat], PerCategory, resp)
        IN  IF got.raised
            THEN /\ requests' = [requests EXCEPT ![r] = [frame EXCEPT !.pc = "raised"]]
                 /\ UNCHANGED g_all_news
            ELSE FetchReturned(r, frame, got.items)
    /\ UNCHANGED news_cache

\* lines 378-406 and 425, within the pipeline
PipelineRankReturn_(r) ==
    /\ requests[r].pc = "rank"
    /\ \E resp \in PipelineRankResponses :
        LET step == RankStep(Len(requests[r].all_items), resp)
        IN  requests' = [requests EXCEPT ![r] =
                [@ EXCEPT !.pc = "done", !.rank_resp = resp,
                          !.sections = step.sections, !.how = step.by]]
    /\ UNCHANGED <<g_all_news, news_cache>>

PipelineRest == UNCHANGED <<fetchVars, rankVars, dedupeVars, sectionVars, campaignVars>>

StartRequest == PipelineRest /\ \E r \in Requests : StartRequest_(r)
PipelineSearchReturn == PipelineRest /\ \E r \in Requests : PipelineSearchReturn_(r)
PipelineRewriteReturn == PipelineRest /\ \E r \in Requests : PipelineRewriteReturn_(r)
PipelineFallbackReturn == PipelineRest /\ \E r \in Requests : PipelineFallbackReturn_(r)
PipelineRankReturn == PipelineRest /\ \E r \in Requests : PipelineRankReturn_(r)

NextPipeline ==
    \/ StartRequest
    \/ PipelineSearchReturn
    \/ PipelineRewriteReturn
    \/ PipelineFallbackReturn
    \/ PipelineRankReturn

SpecPipeline == InitPipeline /\ [][NextPipeline]_vars

----------------------------------------------------------------------------
(* The ActiveCampaign routes (activecampaign_routes.py) and service        *)
(* (activecampaign_service.py).  An HTTP answer is a raised transport       *)
(* error or a status code with a body; a body is JSON or not.              *)

HttpRaise == [kind |-> "raise"]
Http(status, body) == [kind |-> "http", status |-> status, body |-> body]
NotJson == [json |-> FALSE]
Obj(d) == [json |-> TRUE, d |-> d]
NoAnswer == [kind |-> "none"]

\* scheduled dates as chunks: ISO is <<date, "T", time>>, possibly followed by "Z"
DateText(chunks) == [given |-> TRUE, text |-> chunks]
IsoDate == DateText(<<"2026-01-20", "T", "10:00:00">>)
IsoDateZ == DateText(<<"2026-01-20", "T", "10:00:00", "Z">>)
PlainDate == DateText(<<"tomorrow">>)
EmptyDate == DateText(<<>>)
NoDate == [given |-> FALSE]

\* if scheduled_date: neither None nor the empty string
DateGiven(d) == d.given /\ d.text # <<>>

\* datetime.fromisoformat(scheduled_date.replace('Z', '+00:00')) succeeds
IsIso(t) == Len(t) \in {3, 4} /\ t[2] = "T" /\ (Len(t) = 4 => t[4] = "Z")

\* lines 211-215: dt.strftime("%Y-%m-%d %H:%M:%S"), or the text as given
FormatDate(d) == IF IsIso(d.text) THEN <<d.text[1], " ", d.text[3]>> ELSE d.text

\* mutant of Configured: only the URL is required
Configured_UrlOnly(cfg) == cfg.ACTIVECAMPAIGN_URL # ""

\* line 32, negated: self.base_url and self.api_key
Configured(cfg) == cfg.ACTIVECAMPAIGN_URL # "" /\ cfg.ACTIVECAMPAIGN_API_KEY # ""

\* _handle_response_v3, lines 44-60
HandleResponseV3(resp) ==
    IF resp.kind = "raise" THEN [raised |-> TRUE]
    ELSE IF resp.status >= 400 THEN [raised |-> TRUE]
    ELSE IF ~resp.body.json THEN [raised |-> TRUE]
    ELSE [raised |-> FALSE, data |-> resp.body.d]

\* _handle_response_v1, lines 62-74: the status code is not looked at
HandleResponseV1(resp) ==
    IF resp.kind = "raise" THEN [raised |-> TRUE]
    ELSE IF ~resp.body.json THEN [raised |-> TRUE]
    ELSE IF "result_code" \in DOMAIN resp.body.d /\ resp.body.d.result_code = 0
    THEN [raised |-> TRUE]
    ELSE [raised |-> FALSE, data |-> resp.body.d]

\* create_message_v3, lines 157-166: return data["message"]["id"]
CreateMessageV3(resp) ==
    LET h == HandleResponseV3(resp)
    IN  IF h.raised THEN [raised |-> TRUE]
        ELSE IF "message" \notin DOMAIN h.data THEN [raised |-> TRUE]
        ELSE [raised |-> FALSE, id |-> h.data.message.id]

\* mutant of CampaignForm: a scheduled campaign without a date is created anyway
CampaignForm_NoDateCheck(campaign_status, scheduled_date) ==
    IF campaign_status = "draft" THEN [raised |-> FALSE, status |-> 0, sdate |-> <<>>]
    ELSE IF campaign_status = "scheduled" /\ DateGiven(scheduled_date)
    THEN [raised |-> FALSE, status |-> 1, sdate |-> FormatDate(scheduled_date)]
    ELSE [raised |-> FALSE, status |-> 1, sdate |-> <<>>]

\* create_campaign_v1, lines 203-220: status and sdate, or the exception of line 217
CampaignForm(campaign_status, scheduled_date) ==
    IF campaign_status = "draft" THEN [raised |-> FALSE, status |-> 0, sdate |-> <<>>]
    ELSE IF campaign_status = "scheduled"
    THEN IF DateGiven(scheduled_date)
         THEN [raised |-> FALSE, status |-> 1, sdate |-> FormatDate(scheduled_date)]
         ELSE [raised |-> TRUE]
    ELSE [raised |-> FALSE, status |-> 1, sdate |-> <<>>]

\* create_campaign_v1, lines 257-258: campaign_id = str(data.get('id'))
CreateCampaignV1(resp) ==
    LET h == HandleResponseV1(resp)
    IN  IF h.raised THEN [raised |-> TRUE]
        ELSE [raised |-> FALSE,
              id |-> IF "id" \in DOMAIN h.data THEN [str |-> h.data.id] ELSE [str |-> "None"]]

\* the requests the service issues
GetLists == [api |-> "v3", method |-> "GET", path |-> "/api/3/lists"]
GetAddresses == [api |-> "v3", method |-> "GET", path |-> "/api/3/addresses"]
PostMessage == [api |-> "v3", method |-> "POST", path |-> "/api/3/messages"]
PostCampaign(form, mid) ==
    [api |-> "v1", method |-> "POST", path |-> "/admin/api.php",
     status |-> form.status, sdate |-> form.sdate, message |-> mid]

Issued(req) == [req |-> req, resp |-> NoAnswer]

\* the answer to the request in flight is recorded with it
Answered(log, resp) == [log EXCEPT ![Len(log)] = [@ EXCEPT !.resp = resp]]

\* what the routes answer
ConfigError == [kind |-> "error", status |-> 500, detail |-> "ActiveCampaign not configured"]
Failure(what) == [kind |-> "error", status |-> 500, detail |-> what]
Success(res) == [kind |-> "ok", result |-> res]

SettingsPool ==
    [ACTIVECAMPAIGN_URL : {"", "https://acct.api-us1.com"},
     ACTIVECAMPAIGN_API_KEY : {"", "key"}]

\* the requests a client can make: campaignStatus is one of the three literals
RoutePool ==
    {[op |-> "get_lists"], [op |-> "get_addresses"]}
    \cup {[op |-> "push_campaign", campaignStatus |-> st, scheduledDate |-> d] :
            st \in {"draft", "scheduled", "immediate"},
            d \in {NoDate, EmptyDate, IsoDate, IsoDateZ, PlainDate}}

V3GetAnswers ==
    {HttpRaise, Http(200, Obj([lists |-> <<>>, addresses |-> <<>>])),
     Http(401, Obj([message |-> "unauthorized"])), Http(200, NotJson)}

V3MessageAnswers ==
    {HttpRaise, Http(201, Obj([message |-> [id |-> "m1"]])),
     Http(422, Obj([errors |-> "invalid"])), Http(500, NotJson),
     Http(200, Obj(<<>>)), Http(200, NotJson)}

V1CampaignAnswers ==
    {HttpRaise, Http(200, Obj([result_code |-> 1, id |-> 7])),
     Http(200, Obj([result_code |-> 0, result_message |-> "failed"])),
     Http(200, NotJson),
     Http(500, Obj([message |-> "Internal Server Error"]))}

InitCampaign ==
    /\ settings \in SettingsPool
    /\ service_instance = "None"
    /\ apc = "idle"
    /\ route = NoRoute
    /\ message_id = "None"
    /\ http_log = <<>>
    /\ outcome = [kind |-> "none"]
    /\ served = 0
    /\ FetchIdle
    /\ RankIdle
    /\ DedupeIdle
    /\ SectionIdle
    /\ PipelineIdle

CampaignRest == UNCHANGED <<fetchVars, rankVars, dedupeVars, sectionVars, pipelineVars>>

\* a route is called: get_activecampaign_service() (lines 340-345) constructs the
\* service when there is none, which raises ValueError when not configured (26-33);
\* otherwise the route's first HTTP request is issued
BeginRoute ==
    /\ apc = "idle"
    /\ served < MaxRoutes
    /\ served' = served + 1
    /\ message_id' = "None"
    /\ \E rt \in RoutePool :
        /\ route' = rt
        /\ IF service_instance = "None" /\ ~Configured(settings)
           THEN /\ outcome' = ConfigError
                /\ http_log' = <<>>
                /\ apc' = "idle"
                /\ UNCHANGED service_instance
           ELSE /\ service_instance' = "ActiveCampaignService"
                /\ outcome' = [kind |-> "none"]
                /\ http_log' = <<Issued(CASE rt.op = "get_lists" -> GetLists
                                          [] rt.op = "get_addresses" -> GetAddresses
                                          [] OTHER -> PostMessage)>>
                /\ apc' = rt.op
    /\ UNCHANGED settings
    /\ CampaignRest

\* get_lists and get_addresses: the GET returns (lines 84-94 and 104-131)
GetReturn ==
    /\ apc \in {"get_lists", "get_addresses"}
    /\ \E resp \in V3GetAnswers :
        /\ http_log' = Answered(http_log, resp)
        /\ outcome' = IF HandleResponseV3(resp).raised
                      THEN Failure("Failed to fetch")
                      ELSE Success(<<>>)
    /\ apc' = "idle"
    /\ UNCHANGED <<settings, service_instance, route, message_id, served>>
    /\ CampaignRest

\* push_newsletter, lines 296-327: the message POST returns; on failure raise,
\* otherwise enter create_campaign_v1 up to its POST (or its exception)
MessageReturn ==
    /\ apc = "push_campaign"
    /\ \E resp \in V3MessageAnswers :
        LET created == CreateMessageV3(resp)
            form == CampaignForm(route.campaignStatus, route.scheduledDate)
        IN  IF created.raised
            THEN /\ http_log' = Answered(http_log, resp)
                 /\ outcome' = Failure("Failed to create message")
                 /\ apc' = "idle"
                 /\ UNCHANGED message_id
            ELSE /\ message_id' = created.id
                 /\ IF form.raised
                    THEN /\ http_log' = Answered(http_log, resp)
                         /\ outcome' = Failure("Failed to create campaign")
                         /\ apc' = "idle"
                    ELSE /\ http_log' = Append(Answered(http_log, resp),
                                               Issued(PostCampaign(form, created.id)))
                         /\ outcome' = outcome
                         /\ apc' = "campaign"
    /\ UNCHANGED <<settings, service_instance, route, served>>
    /\ CampaignRest

\* create_campaign_v1 lines 251-261, push_newsletter 325-333, route 141-175
CampaignReturn ==
    /\ apc = "campaign"
    /\ \E resp \in V1CampaignAnswers :
        LET created == CreateCampaignV1(resp)
        IN  /\ http_log' = Answered(http_log, resp)
            /\ outcome' = IF created.raised
                          THEN Failure("Failed to create campaign")
                          ELSE Success([campaign_id |-> created.id,
                                        message_id |-> message_id,
                                        status |-> route.campaignStatus])
    /\ apc' = "idle"
    /\ UNCHANGED <<settings, service_instance, route, message_id, served>>
    /\ CampaignRest

NextCampaign == BeginRoute \/ GetReturn \/ MessageReturn \/ CampaignReturn

SpecCampaign == InitCampaign /\ [][NextCampaign]_vars

----------------------------------------------------------------------------
(* Further properties of rank_and_assign_to_sections and _simple_distribution *)

\* the "assignments" object of the ranking response, in the order of its keys
RankedAssignments == Get(ParseResponse(rank_resp).json.d, "assignments", Dict(<<>>)).d

\* the index the ranking model put at place j of its k-th section
NamedIndex(k, j) == RankedAssignments[k].indices.v[j]

\* an integer (to isinstance: JSON true and false count as 1 and 0) within 0..len-1
UsableIndex(idx) == IsInt(idx) /\ 0 <= IntOf(idx) /\ IntOf(idx) < n_items

\* place j of section k is the first place, in iteration order, naming its position
FirstClaim(k, j) ==
    /\ UsableIndex(NamedIndex(k, j))
    /\ \A k2 \in 1..k : \A j2 \in 1..Len(RankedAssignments[k2].indices.v) :
          (k2 < k \/ j2 < j) =>
              ~(/\ UsableIndex(NamedIndex(k2, j2))
                /\ IntOf(NamedIndex(k2, j2)) = IntOf(NamedIndex(k, j)))

\* the positions of section k that are first claims, in the order named
RECURSIVE FirstClaims(_, _)
FirstClaims(k, upto) ==
    IF upto = 0 THEN <<>>
    ELSE IF FirstClaim(k, upto)
         THEN Append(FirstClaims(k, upto - 1), IntOf(NamedIndex(k, upto)))
         ELSE FirstClaims(k, upto - 1)

\* C11: in an output built from the ranking model's assignments every section
\* holds, in order, exactly the indices it named that are integers within
\* 0..len(items)-1 and were not named earlier in the iteration order of the
\* assignments: an index named twice stays at its first occurrence only, and
\* non-integers and out-of-range indices are dropped.
C11_FirstClaimWins ==
    (rpc = "done" /\ rank_path = "ranked") =>
        /\ Len(sections) = Len(RankedAssignments)
        /\ \A k \in 1..Len(sections) :
              /\ sections[k].key = RankedAssignments[k].key
              /\ sections[k].items = FirstClaims(k, Len(RankedAssignments[k].indices.v))

\* C11 witness: of 12 items, index 2 is named under second-story (with a
\* non-integer) and again under third-story (with index 0): it stays in
\* second-story only.
C11_Witness ==
    /\ rpc = "done"
    /\ rank_path = "ranked"
    /\ n_items = 12
    /\ rank_resp = Plain(Dict([assignments |->
            Dict(<<Section("second-story", List(<<Int_(2), NonInt>>)),
                   Section("third-story", List(<<Int_(2), Int_(0)>>))>>)]))
    /\ sections = <<[key |-> "second-story", items |-> <<2>>],
                    [key |-> "third-story", items |-> <<0>>]>>

\* the ranking response is malformed: the call raised, the text is empty or not
\* JSON, or it is a JSON object without the assignments key
RankMalformed ==
    \/ rank_resp = Raise
    \/ ~ParseResponse(rank_resp).ok
    \/ /\ ParseResponse(rank_resp).json.shape = "dict"
       /\ "assignments" \notin DOMAIN ParseResponse(rank_resp).json.d

\* C13 as stated: on a malformed ranking response rank_and_assign_to_sections
\* returns the _simple_distribution of the flattened items.
C13_MalformedFallsBack ==
    (rpc = "done" /\ rank_resp # NoResp /\ RankMalformed) =>
        (rank_path = "fallback" /\ sections = SimpleDistribution(n_items))

\* positions a..b-1 that exist in a list of n items, ascending
ExistingRange(a, b, n) ==
    LET ps == {p \in a..(b - 1) : p < n}
    IN  [k \in 1..Cardinality(ps) |-> a + k - 1]

\* the flattened list: categories in the map's order, each category's items in order
FlattenedInOrder ==
    LET all_items == FlattenNews(all_news)
        CatNo(c) == CHOOSE k \in 1..Len(NewsCategories) : NewsCategories[k] = c
    IN  /\ Len(all_items) = Sum4([c \in 1..Len(all_news) |-> Len(all_news[c].items)])
        /\ \A c \in 1..Len(all_news) : \A j \in 1..Len(all_news[c].items) :
              \E p \in 1..Len(all_items) : all_items[p] = all_news[c].items[j]
        /\ \A p, q \in 1..Len(all_items) :
              p < q => \/ CatNo(all_items[p][1]) < CatNo(all_items[q][1])
                       \/ /\ all_items[p][1] = all_items[q][1]
                          /\ all_items[p][2] < all_items[q][2]

\* C14: for every length n >= 0 of the flattened list (categories in the map's
\* order, per-category order kept) _simple_distribution returns exactly the seven
\* section keys with main-story = [0], main-story-summary = [0], second-story =
\* [1], third-story = [2], trendsetter = 3..4, top-news = 5..7, links = 8..10, each
\* cut to the items that exist; positions 11 and beyond are nowhere.
C14_SimpleDistribution ==
    (rpc = "done" /\ rank_path = "direct") =>
        LET n == Len(FlattenNews(all_news))
        IN  /\ FlattenedInOrder
            /\ n = n_items
            /\ sections =
                << [key |-> "main-story",         items |-> ExistingRange(0, 1, n)],
                   [key |-> "main-story-summary", items |-> ExistingRange(0, 1, n)],
                   [key |-> "second-story",       items |-> ExistingRange(1, 2, n)],
                   [key |-> "third-story",        items |-> ExistingRange(2, 3, n)],
                   [key |-> "trendsetter",        items |-> ExistingRange(3, 5, n)],
                   [key |-> "top-news",           items |-> ExistingRange(5, 8, n)],
                   [key |-> "links",              items |-> ExistingRange(8, 11, n)] >>
            /\ \A k \in 1..Len(sections) : \A j \in 1..Len(sections[k].items) :
                  sections[k].items[j] < 11 /\ sections[k].items[j] < n

\* C14 witness: 12 items in three full categories; links holds 8, 9, 10 and
\* position 11 is in no section.
C14_Witness ==
    /\ rpc = "done"
    /\ rank_path = "direct"
    /\ n_items = 12
    /\ Len(all_news[4].items) = 0
    /\ sections[5].items = <<3, 4>>
    /\ sections[7].items = <<8, 9, 10>>
    /\ \A k \in 1..Len(sections) : 11 \notin Range(sections[k].items)

\* C17 as stated: every key of the map rank_and_assign_to_sections returns is one
\* of the seven fixed section keys, whatever names the ranking model used.
C17_FixedSectionKeys ==
    rpc = "done" => \A k \in 1..Len(sections) : sections[k].key \in Range(SectionKeys)

----------------------------------------------------------------------------
(* Further properties of _fetch_ai_generated_news                          *)

\* C15 as stated: every item returned by _fetch_ai_generated_news has url equal to
\* the empty string, whatever url the content model put in its response.
C15_FallbackUrlEmpty ==
    (pc = "done" /\ path # "search") =>
        \A k \in 1..Len(result) : result[k].url = EmptyStr

\* the content-model call of the fallback generator failed, or its response is
\* not JSON of the expected shape: not parseable, not an object, or one of the
\* first num_items entries of news is not an object
FallbackFailed ==
    \/ fallback_resp = Raise
    \/ ~ParseResponse(fallback_resp).ok
    \/ ParseResponse(fallback_resp).json.shape # "dict"
    \/ LET news == Get(ParseResponse(fallback_resp).json.d, "news", <<>>)
       IN  \E k \in 1..Len(news) : k <= num_items /\ ~IsRecord(news[k])

\* C16: _fetch_ai_generated_news never raises; once its content-model call has
\* come back the function has returned, and when the call failed or the response
\* is not JSON of the expected shape it has returned the empty sequence.
C16_FallbackNeverRaises ==
    fallback_resp # NoResp =>
        /\ pc = "done"
        /\ calls.fallback = 1
        /\ FallbackFailed => result = <<>>

\* C16 witness: the fallback generator got text that is not JSON, and an object
\* whose news holds a non-object, and returned the empty sequence.
C16_Witness ==
    /\ pc = "done"
    /\ calls.fallback = 1
    /\ fallback_resp \in {Garbage, Plain(Dict([news |-> <<F_one, NotARecord>>]))}
    /\ num_items = MaxArticles
    /\ result = <<>>

----------------------------------------------------------------------------
(* Properties of _dedupe_items                                             *)

\* the lower-cased, white-space-trimmed title cut to its first 50 characters,
\* written out position by position
SamePrefix(t1, t2) ==
    LET trim1 == Strip(Lower(t1))
        trim2 == Strip(Lower(t2))
        cut1 == IF Len(trim1) < 50 THEN Len(trim1) ELSE 50
        cut2 == IF Len(trim2) < 50 THEN Len(trim2) ELSE 50
    IN  /\ cut1 = cut2
        /\ \A i \in 1..cut1 : trim1[i] = trim2[i]

\* the input places whose prefix no earlier input place has
FirstSeen == {i \in 1..Len(items) :
                 \A j \in 1..(i - 1) : ~SamePrefix(items[j].title, items[i].title)}

\* the k-th smallest element of a set of places
Nth(S, k) == CHOOSE i \in S : Cardinality({j \in S : j <= i}) = k

\* C12: _dedupe_items returns the input items at the places whose prefix was not
\* seen earlier, in input order: a subsequence of the input in which no two items
\* have equal lower-cased, trimmed, 50-character title prefixes, and every input
\* item is kept or has an earlier kept item with the same prefix.
C12_DedupeFirstSeen ==
    dpc = "done" =>
        /\ Len(unique_items) = Cardinality(FirstSeen)
        /\ \A k \in 1..Len(unique_items) : unique_items[k] = items[Nth(FirstSeen, k)]
        /\ \A k, l \in 1..Len(unique_items) :
              k # l => ~SamePrefix(unique_items[k].title, unique_items[l].title)
        /\ \A i \in 1..Len(items) :
              \E k \in 1..Len(unique_items) :
                 /\ unique_items[k].url <= i
                 /\ SamePrefix(unique_items[k].title, items[i].title)

\* C12 witness: three items; the second differs from the first only in case and
\* in characters after the 50th, and is dropped; the third has white space before
\* a title that differs within the first 50 characters, and is kept.
C12_Witness ==
    /\ dpc = "done"
    /\ Len(items) = 3
    /\ items[1].title = Rep("x", 50) \o <<"y">>
    /\ items[2].title = Rep("X", 50) \o <<"z">>
    /\ items[3].title = Rep("x", 49) \o <<"z">>
    /\ unique_items = <<items[1], items[3]>>

----------------------------------------------------------------------------
(* Properties of search_news_for_section                                   *)

\* section_description holds the text "Find news related to:"
DirectivePresent == \E i \in 1..Len(section_description) : section_description[i] = DIRECTIVE

\* section_description[i..j] is Find news related to: "<topic>" with a non-empty topic
QuotedTopicAt(i, j) ==
    /\ i >= 1 /\ i + 4 <= j /\ j <= Len(section_description)
    /\ section_description[i] = DIRECTIVE
    /\ section_description[i + 1] = SP
    /\ section_description[i + 2] = QUOTE
    /\ section_description[j] = QUOTE
    /\ \A k \in (i + 3)..(j - 1) : section_description[k] # QUOTE

\* section_description holds the full directive pattern
FullDirective ==
    \E i, j \in 1..Len(section_description) : QuotedTopicAt(i, j)

RelatedIssued == \E k \in 1..Len(s_calls) : s_calls[k].to = "related"

\* num_items // 4, but at least 1
FairShare == IF s_num_items < 4 THEN 1 ELSE s_num_items \div 4

\* fetch_news_with_catchy_titles was called once per category, in order
FourFetchCalls ==
    <<FetchCall("seo", FairShare), FetchCall("ppc", FairShare),
      FetchCall("social_media", FairShare), FetchCall("website", FairShare)>>

\* the result is the generic multi-category fetch: the four lists concatenated,
\* deduplicated by _dedupe_items and cut to num_items
GenericFetchReturned ==
    /\ s_path = "generic"
    /\ Len(cat_items) = 4
    /\ \A c \in 1..4 : \A k \in 1..Len(cat_items[c]) :
          cat_items[c][k].category = NewsCategories[c]
    /\ s_result = Take(DedupeNews(cat_items[1] \o cat_items[2] \o cat_items[3] \o cat_items[4]),
                       s_num_items)

\* C18 as stated: the related search is issued only when section_description
\* holds the full pattern Find news related to: "<topic>" with a quoted, non-empty
\* topic; when the pattern is absent no related search is issued and the result
\* is the generic multi-category fetch.
C18_AsStated ==
    /\ RelatedIssued => FullDirective
    /\ (spc = "done" /\ ~FullDirective) =>
          (~RelatedIssued /\ s_calls = FourFetchCalls /\ GenericFetchReturned)

\* C18 amended: the related search is issued exactly when section_description
\* holds the text Find news related to:, with as topic the first quoted non-empty
\* text following it when there is one and the whole description otherwise; when
\* the text is absent no related search is issued and the result is the generic
\* multi-category fetch, one fetch per category in the order seo, ppc,
\* social_media, website.
C18_DirectiveDispatch ==
    spc # "start" =>
        /\ RelatedIssued <=> DirectivePresent
        /\ RelatedIssued =>
              /\ s_calls[1].to = "related"
              /\ s_calls[1].num_items = s_num_items
              /\ \A k \in 2..Len(s_calls) : s_calls[k].to = "fetch"
              /\ IF FullDirective
                 THEN \E i, j \in 1..Len(section_description) :
                         /\ QuotedTopicAt(i, j)
                         /\ \A i2 \in 1..(i - 1) : \A j2 \in 1..Len(section_description) :
                               ~QuotedTopicAt(i2, j2)
                         /\ s_calls[1].topic = SubSeq(section_description, i + 3, j - 1)
                 ELSE s_calls[1].topic = section_description
        /\ (spc = "done" /\ ~DirectivePresent) =>
              (s_calls = FourFetchCalls /\ GenericFetchReturned)

\* C18 witness: the directive without a quoted topic; the related search was
\* issued with the whole description as topic and its items were returned.
C18_Witness ==
    /\ spc = "done"
    /\ section_description = <<DIRECTIVE, SP, "ai">>
    /\ s_calls = <<RelatedCall(<<DIRECTIVE, SP, "ai">>, 2)>>
    /\ s_path = "related"
    /\ Len(s_result) = 2

\* the news array of the related response, empty when there is none
RelatedNews ==
    IF related_resp.kind # "text" THEN <<>>
    ELSE LET parsed == JsonLoads(ExtractObject(CleanResult(related_resp.text)))
         IN  IF parsed.ok /\ parsed.json.shape = "dict"
             THEN Get(parsed.json.d, "news", <<>>) ELSE <<>>

\* the records the related loop looks at: the first num_items of the array
Looked == 1..(IF s_num_items < Len(RelatedNews) THEN s_num_items ELSE Len(RelatedNews))

\* the url is a string that, trimmed, lacks the http scheme
LacksScheme(article) ==
    /\ IsRecord(article) /\ "url" \in DOMAIN article /\ article.url.t = "str"
    /\ Strip(article.url.v) # <<>>
    /\ Head(Strip(article.url.v)) \notin {"http://", "https://"}

\* the record passes the url and title checks
RecordValid(article) ==
    /\ IsRecord(article) /\ "url" \in DOMAIN article /\ article.url.t = "str"
    /\ Strip(article.url.v) # <<>>
    /\ Strip(article.url.v) # <<"https://", "...">>
    /\ ~LacksScheme(article)
    /\ "title" \in DOMAIN article /\ article.title # ""

\* the related search yielded no valid item: the call raised, the response did
\* not parse, the array is empty, or every record looked at fails a check
ZeroValid == \A k \in Looked : ~RecordValid(RelatedNews[k])

\* C19: with the directive present, once the related search has come back with
\* zero valid items the operation goes on to the generic multi-category fetch
\* and returns its result: it neither raises nor returns the empty related list.
C19_ZeroValidFallsThrough ==
    (related_resp # NoResp /\ ZeroValid) =>
        /\ DirectivePresent
        /\ spc \in {"fetch", "done"}
        /\ Len(s_calls) = Len(cat_items) + (IF spc = "done" THEN 1 ELSE 2)
        /\ spc = "done" =>
              /\ SubSeq(s_calls, 2, Len(s_calls)) = FourFetchCalls
              /\ GenericFetchReturned

\* C19 witness: every record of the related response fails the url check, and
\* the items returned come from the four category fetches.
C19_Witness ==
    /\ spc = "done"
    /\ related_resp = Plain(Dict([news |-> <<A_bare, A_nourl, A_blank>>]))
    /\ s_num_items = 8
    /\ s_path = "generic"
    /\ Len(s_result) > 2

\* C20: every item returned from the related-search path has category related
\* and the trimmed url of the record it was built from, which is non-empty,
\* starts with http and is not the placeholder; at most num_items items are
\* returned; no item comes from a record whose url lacks the scheme.
C20_RelatedItems ==
    (spc = "done" /\ s_path = "related") =>
        /\ Len(s_result) <= s_num_items
        /\ Len(s_src) = Len(s_result)
        /\ \A k \in 1..Len(s_result) :
              /\ s_result[k].category = "related"
              /\ s_result[k].url.v # <<>>
              /\ Head(s_result[k].url.v) \in {"http://", "https://"}
              /\ s_result[k].url.v # <<"https://", "...">>
              /\ s_src[k] + 1 \in Looked
              /\ s_result[k].url.v = Strip(RelatedNews[s_src[k] + 1].url.v)
        /\ \A i \in Looked : LacksScheme(RelatedNews[i]) => (i - 1) \notin Range(s_src)

\* C20 witness: of three records the second has the url " b.com ": the first and
\* the third are returned, the third with its url trimmed.
C20_Witness ==
    /\ spc = "done"
    /\ s_path = "related"
    /\ related_resp = Plain(Dict([news |-> <<A_good, A_bare, R_http>>]))
    /\ s_src = <<0, 2>>
    /\ s_result[2].url = Str(<<HTTP, "d.com">>)

----------------------------------------------------------------------------
(* Further properties of fetch_news_with_catchy_titles                     *)

\* C21: the sequence fetch_news_with_catchy_titles returns has at most num_items
\* items, whether it was built from the search records or by the fallback
\* generator, also when the model returned more records than num_items.
C21_AtMostNumItems ==
    pc = "done" =>
        /\ Len(result) <= num_items
        /\ path = "search" => Len(result_src) = Len(result)
        /\ path = "search" => \A k \in 1..Len(result_src) : result_src[k] < num_items

\* C21 witness: the search returned three usable records for num_items = 2 and
\* two items were returned.
C21_Witness ==
    /\ pc = "done"
    /\ path = "search"
    /\ num_items = 2
    /\ Len(raw_articles) = 3
    /\ \A k \in 1..3 : GatePasses(raw_articles[k])
    /\ Len(result) = 2

\* C21 second case, the fallback generator returning more records than asked
FallbackLongerThanAsked ==
    /\ pc = "done"
    /\ path # "search"
    /\ num_items = 2
    /\ fallback_resp = Fenced(Dict([news |-> <<F_two, F_notitle, F_one, F_two>>]))
    /\ Len(result) = 1

----------------------------------------------------------------------------
(* Properties of the newsletter-assembly pipeline                          *)

Started(r) == requests[r].pc # "idle"

\* the search call raised, or its answer did not parse into an object with records
SearchFailed(resp) ==
    \/ resp = Raise
    \/ ~ParseResponse(resp).ok
    \/ ParseResponse(resp).json.shape # "dict"

\* the search answer parsed and its news array is missing or empty
SearchEmpty(resp) ==
    /\ ~SearchFailed(resp)
    /\ Get(ParseResponse(resp).json.d, "news", <<>>) = <<>>

\* the ranking call raised or its answer did not parse into an object
RankCallFailed(resp) ==
    \/ resp = Raise
    \/ ~ParseResponse(resp).ok
    \/ ParseResponse(resp).json.shape # "dict"

\* within one invocation no model is called twice
NoCallTwice(r) ==
    /\ requests[r].calls.search <= 1
    /\ requests[r].calls.rewrite <= 1
    /\ requests[r].calls.fallback <= 1
    /\ requests[r].rank_calls <= 1

\* _simple_distribution ran only after the one ranking call failed
DistributionAfterFailure(r) ==
    requests[r].how = "fallback" =>
        (requests[r].rank_calls = 1 /\ RankCallFailed(requests[r].rank_resp))

\* C22 as stated: within one invocation the search, rewrite and fallback models
\* are each called at most once and the fallback call occurs only after the search
\* step has finished empty or failed; the ranking model is called at most once and
\* _simple_distribution runs only after that call has failed.
C22_NoRetry ==
    \A r \in Requests : Started(r) =>
        /\ NoCallTwice(r)
        /\ requests[r].calls.fallback = 1 =>
              /\ requests[r].search_resp # NoResp
              /\ SearchFailed(requests[r].search_resp) \/ SearchEmpty(requests[r].search_resp)
        /\ DistributionAfterFailure(r)

\* C24: no failure of a search, rewrite or fallback call leaves the pipeline:
\* the fetches are invoked for seo, ppc, social_media, website in that order, the
\* ranking is entered only when all four have returned, and the map handed to it
\* has exactly those four keys.
C24_PipelineNeverAborts ==
    \A r \in Requests : Started(r) =>
        /\ requests[r].pc # "raised"
        /\ requests[r].fetched = SubSeq(<<"seo", "ppc", "social_media", "website">>,
                                        1, Len(requests[r].fetched))
        /\ Len(g_all_news[r]) \in {Len(requests[r].fetched) - 1, Len(requests[r].fetched)}
        /\ \A c \in 1..Len(g_all_news[r]) : g_all_news[r][c].category = requests[r].fetched[c]
        /\ (requests[r].pc \in {"rank", "done"} \/ requests[r].rank_calls > 0) =>
              /\ Len(requests[r].fetched) = 4
              /\ Len(g_all_news[r]) = 4
              /\ requests[r].all_items = FlattenNews(g_all_news[r])

\* C24 witness: the first three categories came back empty after failed calls,
\* the fourth was still fetched and ranked.
C24_Witness ==
    /\ requests[1].pc = "done"
    /\ \A c \in 1..3 : g_all_news[1][c].items = <<>>
    /\ Len(g_all_news[1][4].items) = 2
    /\ requests[1].rank_calls = 1
    /\ requests[1].fallback_resp = NoResp
    /\ requests[2].pc = "idle"

\* what the request returns when it runs alone with the answers it got
AloneResult(r) ==
    LET all_items == FlattenNews(requests[r].alone)
    IN  IF all_items = <<>> THEN [how |-> "empty", sections |-> <<>>]
        ELSE LET step == RankStep(Len(all_items), requests[r].rank_resp)
             IN  [how |-> step.by, sections |-> step.sections]

\* C26: _news_cache stays empty, and each of two requests interleaved at their
\* awaits builds the all_news map and returns the sections it would build and
\* return alone with the same answers.
C26_RequestsIsolated ==
    /\ news_cache = <<>>
    /\ \A r \in Requests : Started(r) =>
          /\ g_all_news[r] = requests[r].alone
          /\ requests[r].pc \in {"rank", "done"} =>
                requests[r].all_items = FlattenNews(requests[r].alone)
          /\ requests[r].pc = "done" =>
                /\ requests[r].sections = AloneResult(r).sections
                /\ requests[r].how = AloneResult(r).how

\* C26 witness: request 1 has returned ranked sections over two categories' items
\* while request 2, started before request 1 ended, is in its third category with
\* a different map.
C26_Witness ==
    /\ requests[1].pc = "done"
    /\ requests[1].how = "ranked"
    /\ Len(requests[1].all_items) = 4
    /\ requests[2].pc = "rewrite"
    /\ requests[2].cat = 3
    /\ Len(g_all_news[2]) = 2
    /\ g_all_news[2] # SubSeq(g_all_news[1], 1, 2)
    /\ news_cache = <<>>

----------------------------------------------------------------------------
(* Properties of response parsing                                          *)

\* C25 as stated: a search answer whose JSON object is embedded in surrounding
\* prose is accepted like the bare object: its news records become raw_articles
\* and the search does not end in the exception handler.
C25_ProseEmbeddedAccepted ==
    search_resp = InProse(Dict([news |-> <<A_good>>])) =>
        (raw_articles = <<A_good>> /\ path # "except")

----------------------------------------------------------------------------
(* Properties of the ActiveCampaign routes and service                     *)

NotConfigured ==
    settings.ACTIVECAMPAIGN_URL = "" \/ settings.ACTIVECAMPAIGN_API_KEY = ""

\* C23: while the ActiveCampaign URL or API key is not configured, every route
\* served has answered at once with the configuration error, no HTTP request to
\* ActiveCampaign was issued and no service instance is stored in the singleton.
C23_ConfigFailure ==
    NotConfigured =>
        /\ service_instance = "None"
        /\ http_log = <<>>
        /\ apc = "idle"
        /\ served > 0 =>
              /\ outcome.kind = "error"
              /\ outcome.detail = "ActiveCampaign not configured"

\* C23 witness: the URL is set but the key is not; a second route, a push, was
\* refused like the first.
C23_Witness ==
    /\ settings.ACTIVECAMPAIGN_URL # ""
    /\ settings.ACTIVECAMPAIGN_API_KEY = ""
    /\ served = 2
    /\ route.op = "push_campaign"
    /\ outcome = ConfigError
    /\ http_log = <<>>
    /\ service_instance = "None"

Pushing == route.op = "push_campaign" /\ ~NotConfigured

\* the message POST did not create a message
MessageFailed(resp) ==
    \/ resp.kind = "raise"
    \/ resp.status >= 400
    \/ ~resp.body.json
    \/ "message" \notin DOMAIN resp.body.d

\* the campaign POST did not create a campaign
CampaignFailed(resp) ==
    \/ resp.kind = "raise"
    \/ resp.status >= 400
    \/ ~resp.body.json
    \/ ("result_code" \in DOMAIN resp.body.d /\ resp.body.d.result_code = 0)

\* the two requests of push_newsletter, in order, the second carrying the id the
\* first returned, and nothing after them
PushOrder ==
    /\ Len(http_log) \in {1, 2}
    /\ http_log[1].req = PostMessage
    /\ Len(http_log) = 2 =>
          /\ http_log[2].req.api = "v1"
          /\ ~MessageFailed(http_log[1].resp)
          /\ http_log[2].req.message = http_log[1].resp.body.d.message.id
    /\ (http_log[1].resp # NoAnswer /\ MessageFailed(http_log[1].resp)) =>
          (Len(http_log) = 1 /\ apc = "idle" /\ outcome.kind = "error")

\* C27 as stated: the message is created before the campaign and the campaign
\* carries the returned message id; when message creation fails no campaign
\* request is made and an error is raised; when campaign creation fails an error
\* is raised, no result is returned and nothing is rolled back; a result is
\* returned only when both steps succeeded.
C27_PushTwoSteps ==
    Pushing =>
        /\ PushOrder
        /\ (Len(http_log) = 2 /\ http_log[2].resp # NoAnswer
                /\ CampaignFailed(http_log[2].resp)) => outcome.kind = "error"
        /\ outcome.kind = "ok" =>
              /\ Len(http_log) = 2
              /\ ~MessageFailed(http_log[1].resp)
              /\ ~CampaignFailed(http_log[2].resp)
              /\ DOMAIN outcome.result = {"campaign_id", "message_id", "status"}

\* the campaign requests issued while serving the route
CampaignRequests == {k \in 1..Len(http_log) : http_log[k].req.api = "v1"}

HasDate == route.scheduledDate.given /\ route.scheduledDate.text # <<>>

\* C28: every campaign request carries status 0 and an empty sdate for draft,
\* status 1 and a non-empty sdate for scheduled, status 1 and an empty sdate for
\* immediate; a scheduled push without a date raises without any campaign request;
\* so status 1 is sent for the scheduled and immediate modes only.
C28_StatusMapping ==
    Pushing =>
        /\ \A k \in CampaignRequests :
              /\ route.campaignStatus = "draft" =>
                    (http_log[k].req.status = 0 /\ http_log[k].req.sdate = <<>>)
              /\ route.campaignStatus = "scheduled" =>
                    (http_log[k].req.status = 1 /\ http_log[k].req.sdate # <<>> /\ HasDate)
              /\ route.campaignStatus = "immediate" =>
                    (http_log[k].req.status = 1 /\ http_log[k].req.sdate = <<>>)
              /\ http_log[k].req.status = 1 =>
                    route.campaignStatus \in {"scheduled", "immediate"}
        /\ (route.campaignStatus = "scheduled" /\ ~HasDate) =>
              /\ CampaignRequests = {}
              /\ Len(http_log) <= 1
              /\ message_id # "None" => (apc = "idle" /\ outcome.kind = "error")

\* C28 witness: a scheduled push with an ISO date ending in Z; the campaign
\* request carries status 1 and the date in ActiveCampaign's format.
C28_Witness ==
    /\ Pushing
    /\ route.campaignStatus = "scheduled"
    /\ route.scheduledDate = IsoDateZ
    /\ Len(http_log) = 2
    /\ http_log[2].req.status = 1
    /\ http_log[2].req.sdate = <<"2026-01-20", " ", "10:00:00">>
    /\ outcome.kind = "ok"

\* a scheduled push without a date: the message was created, no campaign request
ScheduledWithoutDate ==
    /\ Pushing
    /\ route.campaignStatus = "scheduled"
    /\ route.scheduledDate = NoDate
    /\ message_id = "m1"
    /\ outcome.kind = "error"
    /\ Len(http_log) = 1

====
